---- MODULE Spec2Model ----
(***************************************************************************)
(* Torgal: streaming transcription (LocalAgreement stabilizer), semantic   *)
(* slide matcher, voice triggers and the IPC session controller.           *)
(*                                                                         *)
(* Units.  Audio is counted in samples; a spoken word lasts SamplesPerWord *)
(* samples.  A word hypothesis keeps its end time as the sample offset     *)
(* int(end * sample_rate) that audio.py:148 computes from it.  Similarities*)
(* and margins are integers in hundredths (0.58 is 58).  Monotonic time is *)
(* counted in ticks.                                                       *)
(***************************************************************************)
EXTENDS Integers, Sequences, FiniteSets, TLC

(***************************************************************************)
(* Bounds of the model (scaled configuration and input sizes).             *)
(***************************************************************************)
SampleRate ==
    2
SamplesPerWord ==
    2
AUDIO_BUFFER_SECONDS ==
    2
MaxChunk ==
    2

(***************************************************************************)
(* FILTER settings of audio.py (the FILTER object itself is not part of    *)
(* the sources; the values are the documented defaults).                   *)
(***************************************************************************)
FILTER_fuzzy_match_min_len ==
    3
FILTER_min_word_length ==
    2
FILTER_filter_punctuation ==
    TRUE
FILTER_dedupe_consecutive ==
    TRUE

(***************************************************************************)
(* Words.  A word is a string; LowerStrip gives the characters of          *)
(* word.strip().lower(), the form audio.py compares.                       *)
(***************************************************************************)
AllWords ==
    {"go", "next", "slide", "slides", "first", "last", "prior", "talk",
     "Talk", "walk", "-uh", "a", "slide2", "slide9"}

LowerStrip(w) ==
    CASE w = "go"     -> <<"g", "o">>
      [] w = "next"   -> <<"n", "e", "x", "t">>
      [] w = "slide"  -> <<"s", "l", "i", "d", "e">>
      [] w = "slides" -> <<"s", "l", "i", "d", "e", "s">>
      [] w = "first"  -> <<"f", "i", "r", "s", "t">>
      [] w = "last"   -> <<"l", "a", "s", "t">>
      [] w = "prior"  -> <<"p", "r", "i", "o", "r">>
      [] w = "talk"   -> <<"t", "a", "l", "k">>
      [] w = "Talk"   -> <<"t", "a", "l", "k">>
      [] w = "walk"   -> <<"w", "a", "l", "k">>
      [] w = "-uh"    -> <<"-", "u", "h">>
      [] w = "a"      -> <<"a">>
      [] w = "slide2" -> <<"s", "l", "i", "d", "e", "2">>
      [] w = "slide9" -> <<"s", "l", "i", "d", "e", "9">>
      [] OTHER        -> <<>>

Letters ==
    {"a", "d", "e", "f", "g", "h", "i", "k", "l", "n", "o", "p", "r", "s",
     "t", "u", "w", "x"}

Min(a, b) ==
    IF a <= b THEN a ELSE b

Max(a, b) ==
    IF a >= b THEN a ELSE b

Abs(a) ==
    IF a >= 0 THEN a ELSE 0 - a

Take(s, n) ==
    SubSeq(s, 1, Min(n, Len(s)))

\* Python's s[-n:] for n >= 1
LastN(s, n) ==
    IF Len(s) <= n THEN s ELSE SubSeq(s, Len(s) - n + 1, Len(s))

DropN(s, n) ==
    SubSeq(s, n + 1, Len(s))

(***************************************************************************)
(* audio.py: garbage filter and fuzzy stability matching.                  *)
(***************************************************************************)
_is_garbage(word) ==
    LET w == LowerStrip(word)
    IN  \/ Len(w) = 0
        \/ FILTER_filter_punctuation /\ \A i \in 1..Len(w) : w[i] \notin Letters
        \/ Len(w) < FILTER_min_word_length /\ w \notin {<<"i">>, <<"a">>}
        \/ w[1] \in {"-", ".", ",", ";", ":", "!", "?"}

RECURSIVE KeptFrom(_, _, _)
\* the loop of _filter_words from index i on, as the indices it keeps; last
\* is the previous kept word lower-cased (<<>> for None)
KeptFrom(words, i, last) ==
    IF i > Len(words) THEN <<>>
    ELSE IF _is_garbage(words[i]) THEN KeptFrom(words, i + 1, last)
    ELSE IF FILTER_dedupe_consecutive /\ LowerStrip(words[i]) = last
         THEN KeptFrom(words, i + 1, last)
    ELSE <<i>> \o KeptFrom(words, i + 1, LowerStrip(words[i]))

_filter_words(words) ==
    LET kept == KeptFrom(words, 1, <<>>)
    IN  [k \in 1..Len(kept) |-> words[kept[k]]]

\* audio.py:52-66 on the characters w1, w2 of the lower-cased, stripped words
FuzzyMatchChars(w1, w2) ==
    LET min_len == FILTER_fuzzy_match_min_len
        match_len == Min(Len(w1), Len(w2))
    IN  IF w1 = w2 THEN TRUE
        ELSE IF Len(w1) < min_len \/ Len(w2) < min_len THEN FALSE
        ELSE IF match_len >= min_len
                /\ SubSeq(w1, 1, match_len) = SubSeq(w2, 1, match_len) THEN TRUE
        ELSE IF Abs(Len(w1) - Len(w2)) <= 1 /\ Len(w1) >= min_len + 1
             THEN Cardinality({i \in 1..match_len : w1[i] # w2[i]}) <= 1
        ELSE FALSE

\* audio.py:49-51
_fuzzy_match(a, b) ==
    FuzzyMatchChars(LowerStrip(a), LowerStrip(b))

(***************************************************************************)
(* State.                                                                  *)
(***************************************************************************)
VARIABLES
    transcriber,      \* audio.py Transcriber: buffer, last_words, buffer_seconds, hotwords
    matcher,          \* slides.py SlideMatcher, or NoMatcher for None
    text_window,      \* server.py main: rolling list of confirmed words
    command_state,    \* server.py CommandState
    speech_state,     \* server.py SpeechState
    QA_MODE_STATE,    \* server.py module global
    out,              \* events written to stdout by the handler that ran last
    ret,              \* value returned by the component call that ran last
    speaker,          \* the words the speaker has still to say of the phrase begun
    g_returned,       \* history: per buffer sample, was it returned as confirmed
    g_reemit,         \* history: the last process returned a stretch a second time
    g_last_accept,    \* history: time of the last accepted voice trigger (0: none
                      \* within trigger_cooldown)
    g_words,          \* history: words counted since the last semantic transition,
                      \* or since the start, up to match_cooldown_words
    g_last_pcheck,    \* history: time of the last matcher check of the partial
                      \* path (0: none within partial_match_cooldown)
    g_fired,          \* history: the partial a voice trigger was accepted on,
                      \* for as long as it is the last partial (<<>>: none)
    g_finalized       \* history: the words of the last silence-based final, for
                      \* as long as nothing is said and confirmed after it

vars ==
    <<transcriber, matcher, text_window, command_state, speech_state,
      QA_MODE_STATE, out, ret, speaker, g_returned, g_reemit,
      g_last_accept, g_words,
                   g_last_pcheck, g_fired, g_finalized>>

(***************************************************************************)
(* The ASR (a black box).  The buffer holds samples [w, p]: sample p of    *)
(* the spoken word w.  The ASR returns the words whose audio is complete   *)
(* in the buffer, each ending at its last sample; of a word whose audio    *)
(* the buffer holds only in part at its end the ASR may already return a   *)
(* hypothesis (hearTail), ending at the end of the buffer.  A fragment     *)
(* left at the front by the sliding window is not transcribed.             *)
(***************************************************************************)
Sample(w, p) ==
    [w |-> w, p |-> p]

\* the samples from i on continue one word for k samples, k = 1..SamplesPerWord
RunLen(buf, i) ==
    LET ok(k) == /\ i + k - 1 <= Len(buf)
                 /\ \A j \in 0..(k - 1) :
                        buf[i + j].w = buf[i].w /\ buf[i + j].p = j + 1
    IN  IF \E k \in 1..SamplesPerWord : ok(k)
        THEN CHOOSE k \in 1..SamplesPerWord :
                 ok(k) /\ \A k2 \in 1..SamplesPerWord : ok(k2) => k2 <= k
        ELSE 0

RECURSIVE TranscribeFrom(_, _, _)
TranscribeFrom(buf, i, hearTail) ==
    IF i > Len(buf) THEN <<>>
    ELSE LET k == RunLen(buf, i)
         IN  IF k = SamplesPerWord
             THEN <<[word |-> buf[i].w, end |-> i + k - 1]>>
                      \o TranscribeFrom(buf, i + k, hearTail)
             ELSE IF k > 0 /\ i + k - 1 = Len(buf)
             THEN IF hearTail THEN <<[word |-> buf[i].w, end |-> Len(buf)]>> ELSE <<>>
             ELSE TranscribeFrom(buf, i + 1, hearTail)

model_transcribe(buf, hearTail) ==
    TranscribeFrom(buf, 1, hearTail)

(***************************************************************************)
(* audio.py: Transcriber.                                                  *)
(***************************************************************************)
NewTranscriber(buffer_seconds) ==
    [buffer |-> <<>>, last_words |-> <<>>, buffer_seconds |-> buffer_seconds,
     hotwords |-> <<>>]

\* Transcriber.set_hotwords; an empty hotwords field stands for None
set_hotwords(t, keywords) ==
    [t EXCEPT !.hotwords = IF Len(keywords) > 0 THEN Take(keywords, 50) ELSE <<>>]

add_audio(t, samples) ==
    LET b == t.buffer \o samples
        max_samples == t.buffer_seconds * SampleRate
    IN  [t EXCEPT !.buffer = IF Len(b) > max_samples THEN LastN(b, max_samples) ELSE b]

RECURSIVE AgreeFrom(_, _, _)
\* LocalAgreement: number of leading positions from i on at which last and
\* curr fuzzy-match (the zip loop with its break)
AgreeFrom(last, curr, i) ==
    IF i > Len(last) \/ i > Len(curr) THEN 0
    ELSE IF _fuzzy_match(last[i].word, curr[i].word)
         THEN 1 + AgreeFrom(last, curr, i + 1)
         ELSE 0

TrimBuffer_Never(buffer, words, nconf) ==
    buffer

\* the buffer after the trim of audio.py:147-150
TrimBuffer(buffer, words, nconf) ==
    IF nconf > 0 /\ words[nconf].end # 0
    THEN LET trim == words[nconf].end
         IN  IF 0 < trim /\ trim < Len(buffer) THEN DropN(buffer, trim) ELSE buffer
    ELSE buffer

\* Transcriber.process: the new transcriber and the pair it returns; nconf is
\* the number of confirmed words before filtering, ran whether the ASR ran
\* audio.py:146-159: trim, remember the hypothesis, filter and return
ProcessReturn(t, words, nconf) ==
    [t |-> [t EXCEPT !.buffer = TrimBuffer(t.buffer, words, nconf),
                      !.last_words = words],
     confirmed |-> _filter_words([i \in 1..nconf |-> words[i].word]),
     partial |-> _filter_words([i \in 1..(Len(words) - nconf) |->
                                   words[nconf + i].word]),
     nconf |-> nconf, ran |-> TRUE]

\* LocalAgreement that confirms the whole hypothesis of a first pass
LocalAgreement_FirstPassConfirms(t, words) ==
    ProcessReturn(t, words,
                  IF Len(t.last_words) > 0 /\ Len(words) > 0
                  THEN AgreeFrom(t.last_words, words, 1) ELSE Len(words))

\* audio.py:137-144: the hypothesis against the one of the pass before
LocalAgreement(t, words) ==
    ProcessReturn(t, words,
                  IF Len(t.last_words) > 0 /\ Len(words) > 0
                  THEN AgreeFrom(t.last_words, words, 1) ELSE 0)

process(t, hearTail) ==
    IF Len(t.buffer) < SampleRate
    THEN [t |-> t, confirmed |-> <<>>, partial |-> <<>>, nconf |-> 0, ran |-> FALSE]
    ELSE LocalAgreement(t, model_transcribe(t.buffer, hearTail))

TranscriberReset(t) ==
    [t EXCEPT !.buffer = <<>>, !.last_words = <<>>]

(***************************************************************************)
(* History of the audio already returned as confirmed.                     *)
(***************************************************************************)
\* the mask of a buffer that became newbuf, a suffix of oldbuf \o added
MaskSuffix(mask, newLen) ==
    LastN(mask, newLen)

MaskAfterAdd(mask, t, samples) ==
    LET grown == mask \o [i \in 1..Len(samples) |-> FALSE]
    IN  IF Len(add_audio(t, samples).buffer) = 0 THEN <<>>
        ELSE MaskSuffix(grown, Len(add_audio(t, samples).buffer))

\* indices (in the hypothesis) of the confirmed words that process returns
ReturnedIdx(t, hearTail) ==
    LET words == model_transcribe(t.buffer, hearTail)
        r == process(t, hearTail)
        kept == KeptFrom([i \in 1..r.nconf |-> words[i].word], 1, <<>>)
    IN  {kept[k] : k \in 1..Len(kept)}

\* does process return a word whose audio was returned before
Reemits(mask, t, hearTail) ==
    /\ Len(t.buffer) >= SampleRate
    /\ LET words == model_transcribe(t.buffer, hearTail)
       IN  \E i \in ReturnedIdx(t, hearTail) : mask[words[i].end]

MaskAfterProcess(mask, t, hearTail) ==
    IF Len(t.buffer) < SampleRate THEN mask
    ELSE LET words == model_transcribe(t.buffer, hearTail)
             idx == ReturnedIdx(t, hearTail)
             start(i) == IF i = 1 THEN 1 ELSE words[i - 1].end + 1
             marked == [s \in 1..Len(mask) |->
                          mask[s] \/ \E i \in idx : start(i) <= s /\ s <= words[i].end]
             newLen == Len(process(t, hearTail).t.buffer)
         IN  IF newLen = 0 THEN <<>> ELSE MaskSuffix(marked, newLen)

(***************************************************************************)
(* The speaker: audio continues the word in progress or starts a new one.  *)
(***************************************************************************)
RECURSIVE Chunks(_, _, _)
\* the sample sequences of length n that may follow a sample `last`
\* (NoSample when nothing precedes), with new words drawn from V
NoSample ==
    [w |-> "", p |-> SamplesPerWord]

Chunks(last, n, V) ==
    IF n = 0 THEN {<<>>}
    ELSE LET firsts == IF last.p < SamplesPerWord
                       THEN {Sample(last.w, last.p + 1)}
                       ELSE {Sample(w, 1) : w \in V}
         IN  UNION {{<<f>> \o rest : rest \in Chunks(f, n - 1, V)} : f \in firsts}

LastSample(buffer) ==
    IF Len(buffer) = 0 THEN NoSample ELSE buffer[Len(buffer)]

(***************************************************************************)
(* config.py: matching behaviour, in hundredths.                           *)
(***************************************************************************)
MATCH_THRESHOLD ==
    58
MATCH_DIFF ==
    12
STAY_BIAS_MARGIN ==
    3
FORWARD_BIAS_MARGIN ==
    4
BACK_BIAS_MARGIN ==
    3
ALLOW_NON_ADJACENT ==
    FALSE
NON_ADJACENT_THRESHOLD ==
    75
NON_ADJACENT_BOOST ==
    15
\* scaled: min words between transitions
MATCH_COOLDOWN_WORDS ==
    3
\* QA overrides (imported by slides.py:20-22, defined in no source file)
QA_MODE ==
    FALSE
QA_MATCH_THRESHOLD ==
    50
QA_MATCH_DIFF ==
    8
\* words_since is counted up to this bound
MaxWordsSince ==
    3
MaxSlides ==
    3

(***************************************************************************)
(* slides.py: SlideMatcher.  A deck is its number of slides; slide i has   *)
(* index i in 0..slides-1.  sims_used is the similarity vector after the   *)
(* keyword/title boosts and the sentence uplift (slides.py:244-298): the   *)
(* embedder and the token sets are data, so any vector can arise.          *)
(***************************************************************************)
Slides(m) ==
    0..(m.slides - 1)

EffectiveThreshold(qa_mode) ==
    IF qa_mode THEN QA_MATCH_THRESHOLD ELSE MATCH_THRESHOLD

EffectiveDiff(qa_mode) ==
    IF qa_mode THEN QA_MATCH_DIFF ELSE MATCH_DIFF

\* SlideMatcher.__init__ that takes the threshold and the diff of normal mode
\* whatever qa_mode is
NewMatcher_NormalThresholds(slides, qa_mode, allow_non_adjacent) ==
    [loaded |-> TRUE, slides |-> slides,
     threshold |-> MATCH_THRESHOLD, cooldown |-> MATCH_COOLDOWN_WORDS,
     diff |-> MATCH_DIFF,
     forward_bias |-> FORWARD_BIAS_MARGIN, back_bias |-> BACK_BIAS_MARGIN,
     stay_bias |-> STAY_BIAS_MARGIN, qa_mode |-> qa_mode,
     allow_non_adjacent |-> allow_non_adjacent,
     non_adjacent_threshold |-> NON_ADJACENT_THRESHOLD,
     non_adjacent_boost |-> NON_ADJACENT_BOOST,
     current |-> 0, words_since |-> 0]

\* SlideMatcher.__init__ for a non-empty deck (slides >= 1)
NewMatcher(slides, qa_mode, allow_non_adjacent) ==
    [loaded |-> TRUE, slides |-> slides,
     threshold |-> EffectiveThreshold(qa_mode), cooldown |-> MATCH_COOLDOWN_WORDS,
     diff |-> EffectiveDiff(qa_mode),
     forward_bias |-> FORWARD_BIAS_MARGIN, back_bias |-> BACK_BIAS_MARGIN,
     stay_bias |-> STAY_BIAS_MARGIN, qa_mode |-> qa_mode,
     allow_non_adjacent |-> allow_non_adjacent,
     non_adjacent_threshold |-> NON_ADJACENT_THRESHOLD,
     non_adjacent_boost |-> NON_ADJACENT_BOOST,
     current |-> 0, words_since |-> 0]

\* np.argmax: the lowest index of a maximum
ArgMax(f, S) ==
    CHOOSE i \in S : /\ \A j \in S : f[j] <= f[i]
                     /\ \A j \in S : f[j] = f[i] => i <= j

RECURSIVE MaxByKey(_, _)
\* Python's max(list, key=f): the first element with the largest key
MaxByKey(list, f) ==
    IF Len(list) = 1 THEN list[1]
    ELSE LET rest == MaxByKey(Tail(list), f)
         IN  IF f[list[1]] >= f[rest] THEN list[1] ELSE rest

next_slide_of(m) ==
    IF m.current + 1 < m.slides THEN m.current + 1 ELSE m.current

\* prev_slide_of that is not clamped at the first slide: index -1 is the last slide
prev_slide_of_Wraps(m) ==
    IF m.current > 0 THEN m.current - 1 ELSE m.slides - 1

\* slides.py:249
prev_slide_of(m) ==
    IF m.current > 0 THEN m.current - 1 ELSE m.current

\* slides.py:308-312
Candidates(m) ==
    <<m.current>>
      \o (IF next_slide_of(m) # m.current THEN <<next_slide_of(m)>> ELSE <<>>)
      \o (IF prev_slide_of(m) # m.current THEN <<prev_slide_of(m)>> ELSE <<>>)

InSeq(x, list) ==
    \E i \in 1..Len(list) : list[i] = x

\* LocalBest that takes the candidate of the lowest index among the best
LocalBest_LowestIndex(m, sims_used) ==
    IF m.qa_mode THEN ArgMax(sims_used, Slides(m))
    ELSE ArgMax(sims_used, {Candidates(m)[i] : i \in 1..Len(Candidates(m))})

\* slides.py:304-312
LocalBest(m, sims_used) ==
    IF m.qa_mode THEN ArgMax(sims_used, Slides(m))
    ELSE MaxByKey(Candidates(m), sims_used)

\* Target that jumps to the global best without asking allow_non_adjacent
Target_JumpsUnasked(m, sims_used) ==
    LET best == ArgMax(sims_used, Slides(m))
        nxt == next_slide_of(m)
        prv == prev_slide_of(m)
        local_best == LocalBest(m, sims_used)
        t1 == IF nxt # m.current
                 /\ sims_used[nxt] >= sims_used[local_best] - m.forward_bias
              THEN nxt ELSE local_best
        t2 == IF prv # m.current /\ t1 = local_best
                 /\ sims_used[prv] >= sims_used[local_best] - m.back_bias
              THEN prv ELSE t1
        required == Max(sims_used[local_best] + m.non_adjacent_boost,
                        m.non_adjacent_threshold)
    IN  IF m.qa_mode THEN best
        ELSE IF ~InSeq(best, Candidates(m)) /\ sims_used[best] >= required
             THEN best
        ELSE t2

\* slides.py:321-343
Target(m, sims_used) ==
    LET best == ArgMax(sims_used, Slides(m))
        nxt == next_slide_of(m)
        prv == prev_slide_of(m)
        local_best == LocalBest(m, sims_used)
        t1 == IF nxt # m.current
                 /\ sims_used[nxt] >= sims_used[local_best] - m.forward_bias
              THEN nxt ELSE local_best
        t2 == IF prv # m.current /\ t1 = local_best
                 /\ sims_used[prv] >= sims_used[local_best] - m.back_bias
              THEN prv ELSE t1
        required == Max(sims_used[local_best] + m.non_adjacent_boost,
                        m.non_adjacent_threshold)
    IN  IF m.qa_mode THEN best
        ELSE IF m.allow_non_adjacent /\ ~InSeq(best, Candidates(m))
                /\ sims_used[best] >= required
             THEN best
        ELSE t2

\* CooldownBlocked that is one word short
CooldownBlocked_OneShort(m, ignore_cooldown) ==
    ~ignore_cooldown /\ m.words_since + 1 < m.cooldown

\* slides.py:229-231
CooldownBlocked(m, ignore_cooldown) ==
    ~ignore_cooldown /\ m.words_since < m.cooldown

\* RequiredDiff that asks for no margin over the current slide
RequiredDiff_None(m) ==
    0

\* slides.py:345-347
RequiredDiff(m) ==
    IF m.qa_mode THEN m.diff ELSE Max(m.diff, m.stay_bias)

\* WouldTransition without the required margin over the current slide
WouldTransition_NoDiff(m, sims_used, ignore_cooldown) ==
    LET target == Target(m, sims_used)
    IN  /\ target # m.current
        /\ sims_used[target] >= m.threshold
        /\ ~CooldownBlocked(m, ignore_cooldown)

\* WouldTransition that lets a transition through while cooldown_blocked
WouldTransition_IgnoresCooldown(m, sims_used, ignore_cooldown) ==
    LET target == Target(m, sims_used)
    IN  /\ target # m.current
        /\ sims_used[target] >= m.threshold
        /\ sims_used[target] - sims_used[m.current] >= RequiredDiff(m)

\* slides.py:359-364
WouldTransition(m, sims_used, ignore_cooldown) ==
    LET target == Target(m, sims_used)
    IN  /\ target # m.current
        /\ sims_used[target] >= m.threshold
        /\ sims_used[target] - sims_used[m.current] >= RequiredDiff(m)
        /\ ~CooldownBlocked(m, ignore_cooldown)

Intent(m, sims_used, ignore_cooldown) ==
    LET target == Target(m, sims_used)
    IN  IF ~WouldTransition(m, sims_used, ignore_cooldown) THEN "stay"
        ELSE IF target \notin {prev_slide_of(m), m.current, next_slide_of(m)} THEN "jump"
        ELSE IF target > m.current THEN "forward"
        ELSE IF target < m.current THEN "backward"
        ELSE "stay"

\* slides.py:504-529 (options, keywords and phrases are explanations and left out)
EvalPayload(m, sims_used, ignore_cooldown) ==
    LET target == Target(m, sims_used)
        best == ArgMax(sims_used, Slides(m))
    IN  [current_slide |-> m.current,
         prev_slide |-> prev_slide_of(m),
         next_slide |-> next_slide_of(m),
         target_slide |-> target,
         best_slide |-> best,
         prev_sim |-> sims_used[prev_slide_of(m)],
         current_sim |-> sims_used[m.current],
         next_sim |-> sims_used[next_slide_of(m)],
         target_sim |-> sims_used[target],
         best_sim |-> sims_used[best],
         threshold |-> m.threshold,
         required_diff |-> RequiredDiff(m),
         diff |-> sims_used[target] - sims_used[m.current],
         intent |-> Intent(m, sims_used, ignore_cooldown),
         would_transition |-> WouldTransition(m, sims_used, ignore_cooldown),
         qa_mode |-> m.qa_mode,
         allow_non_adjacent |-> m.allow_non_adjacent,
         non_adjacent |-> target \notin {prev_slide_of(m), m.current, next_slide_of(m)},
         cooldown_blocked |-> CooldownBlocked(m, ignore_cooldown),
         cooldown_words |-> m.cooldown,
         words_since |-> m.words_since]

\* slides.py:536-543; slide_title is the title of slide `target`
TransitionPayload(m, sims_used, ignore_cooldown) ==
    LET target == Target(m, sims_used)
    IN  [type |-> "slide_transition",
         from_slide |-> m.current,
         to_slide |-> target,
         confidence |-> sims_used[target],
         slide_title |-> target,
         intent |-> Intent(m, sims_used, ignore_cooldown)]

NoPayload ==
    [none |-> TRUE]

\* SlideMatcher.check.  text_ok: the stripped text is non-empty; enc_ok: the
\* embedder did not raise.  result is "None", "eval" or "transition"
\* (the latter carries both parts).
check(m, text_ok, enc_ok, sims_used, ignore_cooldown) ==
    IF ~text_ok \/ ~enc_ok
    THEN [m |-> m, result |-> "None", eval |-> NoPayload, transition |-> NoPayload]
    ELSE IF WouldTransition(m, sims_used, ignore_cooldown)
    THEN [m |-> [m EXCEPT !.current = Target(m, sims_used), !.words_since = 0],
          result |-> "transition",
          eval |-> EvalPayload(m, sims_used, ignore_cooldown),
          transition |-> TransitionPayload(m, sims_used, ignore_cooldown)]
    ELSE [m |-> m, result |-> "eval",
          eval |-> EvalPayload(m, sims_used, ignore_cooldown),
          transition |-> NoPayload]

add_words(m, n) ==
    [m EXCEPT !.words_since = m.words_since + n]

\* goto that leaves words_since as it was
goto_KeepsCount(m, index) ==
    IF 0 <= index /\ index < m.slides
    THEN [m EXCEPT !.current = index]
    ELSE m

goto_Unchecked(m, index) ==
    [m EXCEPT !.current = index, !.words_since = 0]

\* slides.py:552-555
goto(m, index) ==
    IF 0 <= index /\ index < m.slides
    THEN [m EXCEPT !.current = index, !.words_since = 0]
    ELSE m

MatcherReset_KeepsCount(m) ==
    [m EXCEPT !.current = 0]

\* slides.py:557-559
MatcherReset(m) ==
    [m EXCEPT !.current = 0, !.words_since = 0]

\* set_qa_mode that toggles the mode and keeps threshold and diff
set_qa_mode_ModeOnly(m, qa_mode) ==
    [m EXCEPT !.qa_mode = qa_mode]

\* slides.py:561-574
set_qa_mode(m, qa_mode) ==
    [m EXCEPT !.qa_mode = qa_mode,
              !.threshold = EffectiveThreshold(qa_mode),
              !.diff = EffectiveDiff(qa_mode)]

(***************************************************************************)
(* triggers.py: detect_trigger on the text " ".join(words).  The words of  *)
(* the model carry no punctuation and no polite prefix, so the patterns    *)
(* are matched word by word from the first word on (they are anchored).    *)
(***************************************************************************)
NoTrigger ==
    [action |-> "none", target |-> 0 - 1]

\* number glued to "slide" in one word ("slide2" is slide + 2), 0 when none
GluedSlideNumber(w) ==
    CASE w = "slide2" -> 2
      [] w = "slide9" -> 9
      [] OTHER -> 0

\* len(text) of the joined, stripped text
TextLen(words) ==
    LET n == Len(words)
        RECURSIVE Sum(_)
        Sum(i) == IF i > n THEN 0 ELSE Len(LowerStrip(words[i])) + Sum(i + 1)
    IN  IF n = 0 THEN 0 ELSE Sum(1) + (n - 1)

At(words, i) ==
    IF i <= Len(words) THEN words[i] ELSE ""

\* index after an optional word w at position i
SkipOpt(words, i, w) ==
    IF At(words, i) = w THEN i + 1 ELSE i

detect_trigger(words) ==
    LET afterTo == SkipOpt(words, 2, "to")
        afterThe == SkipOpt(words, afterTo, "the")
        afterA == SkipOpt(words, 3, "a")
        gotoTok == At(words, SkipOpt(words, 2, "to"))
    IN  IF TextLen(words) < 3 THEN NoTrigger
        ELSE IF /\ At(words, 1) \in {"go", "move", "advance", "switch"}
                /\ At(words, afterThe) = "next"
                /\ At(words, afterThe + 1) \in {"slide", "one"}
             THEN [action |-> "next", target |-> 0 - 1]
        ELSE IF /\ At(words, 1) \in {"go", "move", "switch"}
                /\ At(words, 2) = "back"
                /\ At(words, afterA) \in {"slide", "one"}
             THEN [action |-> "prev", target |-> 0 - 1]
        ELSE IF At(words, 1) \in {"previous", "prior"} /\ At(words, 2) = "slide"
             THEN [action |-> "prev", target |-> 0 - 1]
        ELSE IF At(words, 1) = "last" /\ At(words, 2) = "slide"
             THEN [action |-> "last", target |-> 0 - 1]
        ELSE IF At(words, 1) = "first" /\ At(words, 2) = "slide"
             THEN [action |-> "first", target |-> 0 - 1]
        ELSE IF /\ At(words, 1) \in {"go", "jump", "skip"}
                /\ GluedSlideNumber(gotoTok) > 0
             THEN [action |-> "goto", target |-> GluedSlideNumber(gotoTok) - 1]
        ELSE NoTrigger

(***************************************************************************)
(* Controller configuration (scaled).  Times are in ticks.                 *)
(***************************************************************************)
WINDOW_WORDS ==
    2
QA_WINDOW_WORDS ==
    1
RECENT_WORDS_COUNT ==
    2
RECENT_WORDS_MULTIPLIER ==
    2
QA_RECENT_WORDS_COUNT ==
    1
QA_RECENT_WORDS_MULTIPLIER ==
    2
QA_AUDIO_BUFFER_SECONDS ==
    1
TRIGGER_COOLDOWN ==
    1
TRIGGER_TAIL_WORDS ==
    2
TRIGGER_MIN_WORDS_BETWEEN ==
    3
PARTIAL_FINALIZE ==
    2
PARTIAL_MATCH_ENABLED ==
    TRUE
PARTIAL_MATCH_MIN_WORDS ==
    1
PARTIAL_MATCH_STABLE ==
    1
PARTIAL_MATCH_COOLDOWN ==
    2
PARTIAL_MATCH_IGNORE_COOLDOWN ==
    TRUE
\* Monotonic time is read against an origin that moves with the clock: a
\* tick moves every stored timestamp one tick back.  The code compares a
\* timestamp ts only by now - ts against thresholds; once ts lies back by the
\* largest threshold it is compared with, it is kept at 0, which is also the
\* value the code stores for a time that never was.
TimeHorizon ==
    Max(Max(TRIGGER_COOLDOWN, PARTIAL_FINALIZE),
        Max(PARTIAL_MATCH_STABLE, PARTIAL_MATCH_COOLDOWN))

\* time.monotonic()
now ==
    TimeHorizon

\* a timestamp one tick later, threshold being the largest it is compared with
Older(ts, threshold) ==
    IF ts - 1 <= now - threshold THEN 0 ELSE ts - 1

AllActions ==
    {"next", "prev", "goto", "first", "last"}

(***************************************************************************)
(* server.py: helpers.                                                     *)
(***************************************************************************)
_effective_window_words(qa) ==
    IF qa THEN QA_WINDOW_WORDS ELSE WINDOW_WORDS

_effective_audio_buffer_seconds(qa) ==
    IF qa THEN QA_AUDIO_BUFFER_SECONDS ELSE AUDIO_BUFFER_SECONDS

\* server.py:137-144
_effective_recency(qa) ==
    IF qa
    THEN [count |-> QA_RECENT_WORDS_COUNT, multiplier |-> QA_RECENT_WORDS_MULTIPLIER]
    ELSE [count |-> RECENT_WORDS_COUNT, multiplier |-> RECENT_WORDS_MULTIPLIER]

RECURSIVE Repeat(_, _)
Repeat(s, k) ==
    IF k <= 0 THEN <<>> ELSE s \o Repeat(s, k - 1)

\* _weighted_text, as the word list of the text it returns
_weighted_text(window, words, recent_words_count, recent_words_multiplier) ==
    IF recent_words_multiplier <= 1 \/ recent_words_count <= 0 \/ Len(words) = 0
    THEN window
    ELSE window \o Repeat(LastN(words, recent_words_count),
                          recent_words_multiplier - 1)

\* the words counted since the last semantic transition, n words later
\* (counted up to match_cooldown_words)
CountUp(c, n) ==
    Min(c + n, MATCH_COOLDOWN_WORDS)

(***************************************************************************)
(* A handler works on the session record S: t transcriber, m matcher,      *)
(* w text_window, cs command_state, ss speech_state, qa QA_MODE_STATE, out *)
(* the events sent, and the history fields calls (the _try_trigger and     *)
(* check calls made), acc (time of the last accepted trigger, -1 if none)  *)
(* and gw (words counted since the last semantic transition).              *)
(***************************************************************************)
send_type(S, e) ==
    [S EXCEPT !.out = Append(@, e)]

VoiceIntent(action) ==
    CASE action = "next" -> "Voice: Next"
      [] action = "prev" -> "Voice: Back"
      [] action = "goto" -> "Voice: Go to"
      [] action = "first" -> "Voice: First"
      [] action = "last" -> "Voice: Last"
      [] OTHER -> "none"

TriggerDestination_NoRange(m, trigger) ==
    CASE trigger.action = "next" ->
             IF m.current >= m.slides - 1 THEN 0 - 1 ELSE m.current + 1
      [] trigger.action = "prev" ->
             IF m.current <= 0 THEN 0 - 1 ELSE m.current - 1
      [] trigger.action = "goto" -> Max(trigger.target, 0)
      [] trigger.action = "first" -> 0
      [] trigger.action = "last" -> m.slides - 1
      [] OTHER -> 0 - 1

\* the slide the command goes to; -1 when the command is refused at an edge
\* or out of range (server.py:190-215)
TriggerDestination(m, trigger) ==
    CASE trigger.action = "next" ->
             IF m.current >= m.slides - 1 THEN 0 - 1 ELSE m.current + 1
      [] trigger.action = "prev" ->
             IF m.current <= 0 THEN 0 - 1 ELSE m.current - 1
      [] trigger.action = "goto" ->
             IF trigger.target < 0 \/ trigger.target >= m.slides
             THEN 0 - 1 ELSE trigger.target
      [] trigger.action = "first" -> 0
      [] trigger.action = "last" -> m.slides - 1
      [] OTHER -> 0 - 1

ActionAllowed_Always(action, allowed_actions) ==
    TRUE

\* server.py:175
ActionAllowed(action, allowed_actions) ==
    action \in allowed_actions

InTriggerCooldown_Never(command_state_, at) ==
    FALSE

\* server.py:178-183
InTriggerCooldown(command_state_, at) ==
    at - command_state_.last_ts < TRIGGER_COOLDOWN

Debounced_Never(m, action) ==
    FALSE

\* server.py:185-187
Debounced(m, action) ==
    action \in {"next", "prev"} /\ m.words_since < TRIGGER_MIN_WORDS_BETWEEN

\* why _try_trigger returns False, or "accept"
TriggerVerdict(S, text, trigger, allowed, at) ==
    IF ~S.m.loaded \/ Len(text) = 0 THEN "no_matcher_or_text"
    ELSE IF trigger.action = "none" THEN "no_trigger"
    ELSE IF ~ActionAllowed(trigger.action, allowed) THEN "not_allowed"
    ELSE IF InTriggerCooldown(S.cs, at) THEN "cooldown"
    ELSE IF Debounced(S.m, trigger.action) THEN "debounce"
    ELSE IF TriggerDestination(S.m, trigger) < 0 THEN "refused"
    ELSE "accept"

\* the slide_transition event of an accepted trigger; to_slide is read back
\* from matcher.current except for First, which sends the literal 0
VoiceTransition(S, trigger, m2, src) ==
    [type |-> "slide_transition", g_src |-> src, g_voice |-> TRUE,
     g_action |-> trigger.action, g_ws |-> m2.words_since,
     payload |-> [from_slide |-> S.m.current,
                  to_slide |-> IF trigger.action = "first" THEN 0 ELSE m2.current,
                  confidence |-> 100,
                  intent |-> VoiceIntent(trigger.action)]]

\* server.py:219-220 after the goto and the slide_transition of the branch
TriggerAccepted(S, trigger, m2, src, at) ==
    [send_type(S, VoiceTransition(S, trigger, m2, src))
        EXCEPT !.m = m2, !.w = <<>>, !.cs = [last_ts |-> at], !.acc = at]

\* history of the call: since_accept is the time since the last accepted
\* trigger, frame whether the call left the session S as it was (S2 is the
\* session after the call)
TriggerCalled(S, S2, trigger, verdict, src, at) ==
    [S2 EXCEPT !.calls =
        Append(@, [fn |-> "_try_trigger", src |-> src, action |-> trigger.action,
                   verdict |-> verdict, since_accept |-> at - S.acc,
                   words_since |-> S.m.words_since,
                   from_slide |-> S.m.current, to_slide |-> S2.m.current,
                   frame |-> S2.m = S.m /\ S2.w = S.w /\ S2.cs = S.cs
                             /\ S2.out = S.out])]

\* TriggerOutcome that clears the window and stamps the command time for
\* every detected command, accepted or not
TriggerOutcome_AlwaysStamps(S, trigger, verdict, src, at) ==
    IF verdict = "no_matcher_or_text" THEN S
    ELSE TriggerCalled(S,
                       IF verdict = "accept"
                       THEN TriggerAccepted(S, trigger,
                                            goto(S.m, TriggerDestination(S.m, trigger)),
                                            src, at)
                       ELSE IF verdict = "no_trigger" THEN S
                       ELSE [S EXCEPT !.w = <<>>, !.cs = [last_ts |-> at]],
                       trigger, verdict, src, at)

\* server.py:189-221 once the trigger and what becomes of it are known
TriggerOutcome(S, trigger, verdict, src, at) ==
    IF verdict = "no_matcher_or_text" THEN S
    ELSE TriggerCalled(S,
                       IF verdict = "accept"
                       THEN TriggerAccepted(S, trigger,
                                            goto(S.m, TriggerDestination(S.m, trigger)),
                                            src, at)
                       ELSE S,
                       trigger, verdict, src, at)

\* _try_trigger at monotonic time `at`: the session after it
_try_trigger(S, text, allowed, src, at) ==
    TriggerOutcome(S, detect_trigger(text),
                   TriggerVerdict(S, text, detect_trigger(text), allowed, at),
                   src, at)

TriggerFired(S, text, allowed, at) ==
    TriggerVerdict(S, text, detect_trigger(text), allowed, at) = "accept"

\* the call record of a check: counted is the number of words counted since
\* the last semantic transition, eval_at the place in out of its match_eval
CheckCalled(S, r, enc_ok, ignore_cooldown, src) ==
    [S EXCEPT !.m = r.m,
              !.gw = IF r.result = "transition" THEN 0 ELSE @,
              !.calls = Append(@, [fn |-> "check", src |-> src,
                                   ignore_cooldown |-> ignore_cooldown,
                                   enc_ok |-> enc_ok,
                                   words_since |-> S.m.words_since,
                                   counted |-> S.gw,
                                   result |-> r.result,
                                   same_matcher |-> r.m = S.m,
                                   eval_at |-> IF r.result = "None" THEN 0
                                               ELSE Len(S.out) + 1])]

\* SentTransition that leaves the text window as it is
SentTransition_KeepsWindow(S, r, src) ==
    send_type(S, [type |-> "slide_transition", g_src |-> src,
                  g_voice |-> FALSE, g_action |-> "semantic",
                  g_ws |-> r.m.words_since, payload |-> r.transition])

\* server.py:255-259 and 296-304
SentTransition(S, r, src) ==
    [send_type(S, [type |-> "slide_transition", g_src |-> src,
                   g_voice |-> FALSE, g_action |-> "semantic",
                   g_ws |-> r.m.words_since, payload |-> r.transition])
        EXCEPT !.w = <<>>]

SentEval(S, r, src) ==
    send_type(S, [type |-> "match_eval", g_src |-> src, payload |-> r.eval])

\* SendResult that sends the slide_transition before the match_eval
SendResult_TransitionFirst(S1, r, src) ==
    IF r.result = "None" THEN S1
    ELSE IF r.result = "transition" THEN SentEval(SentTransition(S1, r, src), r, src)
    ELSE SentEval(S1, r, src)

\* server.py:251-259 and 293-304: send what matcher.check returned (r)
SendResult(S1, r, src) ==
    IF r.result = "None" THEN S1
    ELSE IF r.result = "transition" THEN SentTransition(SentEval(S1, r, src), r, src)
    ELSE SentEval(S1, r, src)

CheckReturned(S, r, enc_ok, ignore_cooldown, src) ==
    SendResult(CheckCalled(S, r, enc_ok, ignore_cooldown, src), r, src)

\* server.py:250-259 and 292-304: run the matcher and send what it returns
RunCheck(S, text, sims_used, enc_ok, ignore_cooldown, src) ==
    CheckReturned(S, check(S.m, Len(text) > 0, enc_ok, sims_used, ignore_cooldown),
                  enc_ok, ignore_cooldown, src)

\* server.py:234-259: the window and the word count are updated (S1)
ProcessCounted(S1, inp, src, at) ==
    IF TriggerFired(S1, LastN(S1.w, TRIGGER_TAIL_WORDS), AllActions, at)
    THEN _try_trigger(S1, LastN(S1.w, TRIGGER_TAIL_WORDS), AllActions, src, at)
    ELSE RunCheck(_try_trigger(S1, LastN(S1.w, TRIGGER_TAIL_WORDS), AllActions,
                               src, at),
                  _weighted_text(S1.w, S1.w, _effective_recency(S1.qa).count,
                                 _effective_recency(S1.qa).multiplier),
                  inp.sims_used, inp.enc_ok, FALSE, src)

\* _process_words that extends the window and never truncates it
_process_words_Untruncated(S, words, inp, src, at) ==
    IF ~S.m.loaded \/ Len(words) = 0 THEN S
    ELSE ProcessCounted([S EXCEPT
                            !.w = S.w \o words,
                            !.m = add_words(S.m, Len(words)),
                            !.gw = CountUp(S.gw, Len(words))],
                        inp, src, at)

\* _process_words(words, ...): inp gives the embedder's outcome of this call
_process_words(S, words, inp, src, at) ==
    IF ~S.m.loaded \/ Len(words) = 0 THEN S
    ELSE ProcessCounted([S EXCEPT
                            !.w = LastN(S.w \o words, _effective_window_words(S.qa)),
                            !.m = add_words(S.m, Len(words)),
                            !.gw = CountUp(S.gw, Len(words))],
                        inp, src, at)

\* _maybe_partial_match(partial_text, ...)
\* server.py:293-304: after the check of the partial path (S1)
PartialMatched(S1, at) ==
    IF S1.calls[Len(S1.calls)].result = "transition"
    THEN [S1 EXCEPT !.ss.last_partial_match_ts = at, !.pc = at,
                    !.ss.last_partial_text = <<>>, !.ss.last_partial_ts = 0]
    ELSE [S1 EXCEPT !.ss.last_partial_match_ts = at, !.pc = at]

\* PartialCheck that keeps the partial words in the text window and counts
\* them
PartialCheck_KeepsWords(S, combined_words, inp) ==
    RunCheck([S EXCEPT !.w = combined_words, !.m = add_words(S.m, 1)],
             _weighted_text(combined_words, combined_words,
                            _effective_recency(S.qa).count,
                            _effective_recency(S.qa).multiplier),
             inp.sims_used, inp.enc_ok, PARTIAL_MATCH_IGNORE_COOLDOWN, "partial")

\* server.py:283-292
PartialCheck(S, combined_words, inp) ==
    RunCheck(S, _weighted_text(combined_words, combined_words,
                               _effective_recency(S.qa).count,
                               _effective_recency(S.qa).multiplier),
             inp.sims_used, inp.enc_ok, PARTIAL_MATCH_IGNORE_COOLDOWN, "partial")

_maybe_partial_match(S, partial, inp, at) ==
    IF ~PARTIAL_MATCH_ENABLED \/ ~S.m.loaded \/ Len(partial) = 0 THEN S
    ELSE IF Len(partial) < PARTIAL_MATCH_MIN_WORDS THEN S
    ELSE IF at - S.ss.last_partial_ts < PARTIAL_MATCH_STABLE THEN S
    ELSE IF at - S.ss.last_partial_match_ts < PARTIAL_MATCH_COOLDOWN THEN S
    ELSE PartialMatched(
             PartialCheck(S, LastN(S.w \o partial, _effective_window_words(S.qa)),
                          inp),
             at)

_normalize_words(words) ==
    words

\* handle_audio after the transcriber has returned (confirmed, partial), at
\* monotonic time `at`; inp1 and inp2 are the embedder's outcomes for the
\* first and the second matcher.check of the handler
UsedCheck(S) ==
    \E i \in 1..Len(S.calls) : S.calls[i].fn = "check"

\* server.py:321-330
handle_confirmed(S, confirmed, inp, at) ==
    IF Len(confirmed) > 0
    THEN _process_words(
             [send_type(S, [type |-> "final", g_src |-> "confirmed",
                            text |-> confirmed])
                 EXCEPT !.ss = [last_partial_text |-> <<>>, last_partial_ts |-> 0,
                                last_partial_match_ts |-> 0, last_word_ts |-> at]],
             confirmed, inp, "confirmed", at)
    ELSE S

\* server.py:337-341
PartialSeen(S, partial, at) ==
    IF partial # S.ss.last_partial_text
    THEN [S EXCEPT !.ss.last_partial_text = partial,
                   !.ss.last_partial_ts = at, !.ss.last_word_ts = at]
    ELSE [S EXCEPT !.ss.last_word_ts = at]

\* server.py:343-353
PartialTrigger(S, partial, at) ==
    IF S.m.loaded /\ Len(partial) >= 2
    THEN [_try_trigger(S, LastN(partial, TRIGGER_TAIL_WORDS),
                       {"goto", "first", "last"}, "partial", at)
             EXCEPT !.fp = IF TriggerFired(S, LastN(partial, TRIGGER_TAIL_WORDS),
                                           {"goto", "first", "last"}, at)
                           THEN partial ELSE @]
    ELSE S

\* server.py:332-355; the embedder's outcome is inp2 when the confirmed words
\* already took inp1
handle_partial(S, partial, inp1, inp2, at) ==
    IF Len(partial) > 0
    THEN _maybe_partial_match(
             PartialTrigger(
                 PartialSeen(send_type(S, [type |-> "partial", g_src |-> "partial",
                                           text |-> partial]),
                             partial, at),
                 partial, at),
             partial, IF UsedCheck(S) THEN inp2 ELSE inp1, at)
    ELSE S

\* server.py:363-367
FinalizePartial(S, inp, at) ==
    [_process_words(send_type(S, [type |-> "final", g_src |-> "silence",
                                  text |-> S.ss.last_partial_text]),
                    S.ss.last_partial_text, inp, "silence", at)
        EXCEPT !.ss.last_partial_text = <<>>, !.ss.last_partial_ts = 0,
               !.gf = S.ss.last_partial_text]

handle_silence_AnyAge(S, confirmed, inp1, inp2, at) ==
    IF Len(confirmed) = 0 /\ Len(S.ss.last_partial_text) > 0
    THEN FinalizePartial(S, IF UsedCheck(S) THEN inp2 ELSE inp1, at)
    ELSE S

\* server.py:357-367
handle_silence(S, confirmed, inp1, inp2, at) ==
    IF Len(confirmed) = 0 /\ Len(S.ss.last_partial_text) > 0
       /\ at - S.ss.last_partial_ts >= PARTIAL_FINALIZE
    THEN FinalizePartial(S, IF UsedCheck(S) THEN inp2 ELSE inp1, at)
    ELSE S

\* server.py:316-367: handle_audio once the stabilizer has returned
handle_words(S, confirmed_in, partial_in, inp1, inp2, at) ==
    handle_silence(
        handle_partial(
            handle_confirmed(S, _normalize_words(confirmed_in), inp1, at),
            _normalize_words(partial_in), inp1, inp2, at),
        _normalize_words(confirmed_in), inp1, inp2, at)

\* server.py:311-367
handle_processed(S, r, inp1, inp2, at) ==
    handle_words([S EXCEPT !.t = r.t], r.confirmed, r.partial, inp1, inp2, at)

\* handle_audio for a message with audio (silent false) whose ASR pass succeeds
handle_audio(S, samples, hearTail, inp1, inp2, at) ==
    handle_processed(S, process(add_audio(S.t, samples), hearTail), inp1, inp2, at)

\* handle_audio for a message flagged silent
handle_audio_silent(S, inp1, inp2, at) ==
    handle_words(S, <<>>, <<>>, inp1, inp2, at)

(***************************************************************************)
(* Initial state: server.py main() before the first message.               *)
(***************************************************************************)
NoMatcher ==
    [loaded |-> FALSE]

\* ret when no call is pending: the caller has taken the last return value
NoCall ==
    [call |-> "none"]

\* the caller takes the value the last call returned and the host reads the
\* events the handler wrote
Return ==
    /\ ret # NoCall
    /\ ret' = NoCall
    /\ out' = <<>>
    /\ UNCHANGED <<transcriber, matcher, text_window, command_state, speech_state,
                   QA_MODE_STATE, speaker, g_returned, g_reemit,
                   g_last_accept, g_words,
                   g_last_pcheck, g_fired, g_finalized>>

Init ==
    /\ transcriber = NewTranscriber(AUDIO_BUFFER_SECONDS)
    /\ matcher = NoMatcher
    /\ text_window = <<>>
    /\ command_state = [last_ts |-> 0]
    /\ speech_state = [last_partial_text |-> <<>>, last_partial_ts |-> 0,
                       last_word_ts |-> 0, last_partial_match_ts |-> 0]
    /\ QA_MODE_STATE = QA_MODE
    /\ out = <<>>
    /\ ret = NoCall
    /\ speaker = <<>>
    /\ g_returned = <<>>
    /\ g_reemit = FALSE
    /\ g_last_accept = 0
    /\ g_words = MATCH_COOLDOWN_WORDS
    /\ g_last_pcheck = 0
    /\ g_fired = <<>>
    /\ g_finalized = <<>>

(***************************************************************************)
(* SpecStab: the stabilizer driven directly (add_audio, process, reset).   *)
(***************************************************************************)
StabWords ==
    {"talk", "Talk", "walk", "go", "-uh"}

ControllerUnchanged ==
    UNCHANGED <<matcher, text_window, command_state, speech_state,
                QA_MODE_STATE, out, speaker, g_last_accept, g_words,
                   g_last_pcheck, g_fired, g_finalized>>

\* one audio arrival as server.py:310-311 drives it: add_audio, then process
StabFeed ==
    /\ ret = NoCall
    /\ \E n \in 1..MaxChunk, hearTail \in BOOLEAN :
      \E samples \in Chunks(LastSample(transcriber.buffer), n, StabWords) :
        LET t1 == add_audio(transcriber, samples)
            m1 == MaskAfterAdd(g_returned, transcriber, samples)
            r == process(t1, hearTail)
        IN  /\ transcriber' = r.t
            /\ ret' = [call |-> "process", confirmed |-> r.confirmed,
                       partial |-> r.partial, nconf |-> r.nconf, ran |-> r.ran,
                       before |-> Len(t1.buffer),
                       prev |-> t1.last_words,
                       curr |-> IF r.ran THEN model_transcribe(t1.buffer, hearTail)
                                ELSE <<>>]
            /\ g_reemit' = Reemits(m1, t1, hearTail)
            /\ g_returned' = MaskAfterProcess(m1, t1, hearTail)
            /\ ControllerUnchanged

StabReset ==
    /\ ret = NoCall
    /\ transcriber' = TranscriberReset(transcriber)
    /\ g_returned' = <<>>
    /\ ret' = [call |-> "reset"]
    /\ UNCHANGED g_reemit
    /\ ControllerUnchanged

StabNext ==
    \/ StabFeed
    \/ StabReset
    \/ Return

SpecStab ==
    Init /\ [][StabNext]_vars

(***************************************************************************)
(* SpecMatcher: the matcher driven directly through its methods.           *)
(***************************************************************************)
SimLevels ==
    {46, 54, 58, 60, 75, 90}

MatcherFrame ==
    UNCHANGED <<transcriber, text_window, command_state, speech_state,
                QA_MODE_STATE, out, speaker, g_returned, g_reemit,
                g_last_accept, g_words,
                   g_last_pcheck, g_fired, g_finalized>>

\* SlideMatcher(slides, qa_mode=..., allow_non_adjacent=...)
MatLoad ==
    \E n \in 1..MaxSlides, qa \in BOOLEAN, allow_non_adjacent \in BOOLEAN :
        /\ ret = NoCall
        /\ matcher' = NewMatcher(n, qa, allow_non_adjacent)
        /\ ret' = [call |-> "SlideMatcher"]
        /\ MatcherFrame

MatCheck ==
    /\ ret = NoCall
    /\ matcher.loaded
    /\ \E sims_used \in [Slides(matcher) -> SimLevels],
          ignore_cooldown \in BOOLEAN, text_ok \in BOOLEAN, enc_ok \in BOOLEAN :
        LET r == check(matcher, text_ok, enc_ok, sims_used, ignore_cooldown)
        IN  /\ matcher' = r.m
            /\ ret' = [call |-> "check", before |-> matcher, sims_used |-> sims_used,
                       ignore_cooldown |-> ignore_cooldown, text_ok |-> text_ok,
                       enc_ok |-> enc_ok, result |-> r.result, eval |-> r.eval,
                       transition |-> r.transition, earlier |-> {},
                       local_best |-> LocalBest(matcher, sims_used)]
            /\ MatcherFrame

\* the slides the calls of a run of identical check calls have moved to so far
EarlierTargets ==
    ret.earlier \cup (IF ret.result = "transition"
                      THEN {ret.transition.to_slide} ELSE {})

\* check called again at once with the text of the call before it: the same
\* similarities, no add_words in between, ignore_cooldown as the caller likes
MatCheckAgain ==
    /\ ret.call = "check"
    /\ \E ignore_cooldown \in BOOLEAN, enc_ok \in BOOLEAN :
        LET r == check(matcher, ret.text_ok, enc_ok, ret.sims_used, ignore_cooldown)
        IN  /\ matcher' = r.m
            /\ ret' = [call |-> "check", before |-> matcher,
                       sims_used |-> ret.sims_used,
                       ignore_cooldown |-> ignore_cooldown, text_ok |-> ret.text_ok,
                       enc_ok |-> enc_ok, result |-> r.result, eval |-> r.eval,
                       transition |-> r.transition, earlier |-> EarlierTargets,
                       local_best |-> LocalBest(matcher, ret.sims_used)]
            /\ MatcherFrame

MatAddWords ==
    /\ ret = NoCall
    /\ matcher.loaded
    /\ \E n \in 1..2 :
        /\ matcher.words_since + n <= MaxWordsSince
        /\ matcher' = add_words(matcher, n)
        /\ ret' = [call |-> "add_words"]
        /\ MatcherFrame

MatGoto ==
    /\ ret = NoCall
    /\ matcher.loaded
    /\ \E index \in (0 - 1)..MaxSlides :
        /\ matcher' = goto(matcher, index)
        /\ ret' = [call |-> "goto", index |-> index, before |-> matcher]
        /\ MatcherFrame

MatReset ==
    /\ ret = NoCall
    /\ matcher.loaded
    /\ matcher' = MatcherReset(matcher)
    /\ ret' = [call |-> "reset"]
    /\ MatcherFrame

MatSetQa ==
    /\ ret = NoCall
    /\ matcher.loaded
    /\ \E qa \in BOOLEAN :
        /\ matcher' = set_qa_mode(matcher, qa)
        /\ ret' = [call |-> "set_qa_mode"]
        /\ MatcherFrame

MatcherNext ==
    \/ MatLoad
    \/ MatCheck
    \/ MatCheckAgain
    \/ MatAddWords
    \/ MatGoto
    \/ MatReset
    \/ MatSetQa
    \/ Return

SpecMatcher ==
    Init /\ [][MatcherNext]_vars

(***************************************************************************)
(* Spec: the session controller, server.py main(), one action per message  *)
(* type.  A handler runs within one tick of the monotonic clock.           *)
(***************************************************************************)
\* what the speaker says: phrases, said word by word
Phrases ==
    {<<"prior", "slide">>, <<"first", "slide">>}

\* slides of a deck that load_slides loads
MaxDeck ==
    2

\* words spoken in one audio message
MaxWordsPerMessage ==
    1

RECURSIVE Spoken(_, _)
\* the pairs <<words said, speaker afterwards>> of k words said from sp on
Spoken(sp, k) ==
    IF k = 0 THEN {<<<<>>, sp>>}
    ELSE LET starts == IF Len(sp) > 0 THEN {sp} ELSE Phrases
         IN  UNION {{<<<<ph[1]>> \o r[1], r[2]>> : r \in Spoken(Tail(ph), k - 1)}
                       : ph \in starts}

RECURSIVE WordSamples(_)
\* the audio of whole words; of no word: SamplesPerWord samples without speech
WordSamples(words) ==
    IF Len(words) = 0 THEN <<>>
    ELSE [p \in 1..SamplesPerWord |-> Sample(words[1], p)] \o WordSamples(Tail(words))

QuietSamples ==
    [p \in 1..SamplesPerWord |-> NoSample]

\* the keywords extract_hotwords finds in a deck of n slides
extract_hotwords(n) ==
    [i \in 1..n |-> i]

\* outcomes of the embedder for one matcher.check: it raises, or the
\* similarities favour one slide, or no slide
CheckInputs(m) ==
    IF ~m.loaded THEN {[enc_ok |-> FALSE, sims_used |-> <<>>]}
    ELSE {[enc_ok |-> FALSE, sims_used |-> [i \in Slides(m) |-> 0]]}
         \cup {[enc_ok |-> TRUE,
                sims_used |-> [i \in Slides(m) |-> IF i = k THEN 90 ELSE 46]]
                  : k \in Slides(m)}

Session ==
    [t |-> transcriber, m |-> matcher, w |-> text_window, cs |-> command_state,
     ss |-> speech_state, qa |-> QA_MODE_STATE, out |-> <<>>, calls |-> <<>>,
     acc |-> g_last_accept, gw |-> g_words, pc |-> g_last_pcheck,
     fp |-> g_fired, gf |-> g_finalized]

\* the state a handler leaves
Becomes(S) ==
    /\ transcriber' = S.t
    /\ matcher' = S.m
    /\ text_window' = S.w
    /\ command_state' = S.cs
    /\ speech_state' = S.ss
    /\ QA_MODE_STATE' = S.qa
    /\ out' = S.out
    /\ g_last_accept' = S.acc
    /\ g_words' = S.gw
    /\ g_last_pcheck' = S.pc
    /\ g_fired' = IF S.ss.last_partial_text = S.fp THEN S.fp ELSE <<>>
    /\ g_finalized' = S.gf
    /\ UNCHANGED <<g_returned, g_reemit>>

WithinBounds(S) ==
    S.m.loaded => S.m.words_since <= MaxWordsSince

\* the monotonic clock advances by one tick
Tick ==
    /\ ret = NoCall
    /\ command_state' = [last_ts |-> Older(command_state.last_ts, TRIGGER_COOLDOWN)]
    /\ speech_state' = [last_partial_text |-> speech_state.last_partial_text,
                        last_partial_ts |-> Older(speech_state.last_partial_ts,
                                                  Max(PARTIAL_MATCH_STABLE,
                                                      PARTIAL_FINALIZE)),
                        \* last_word_ts is compared with nothing
                        last_word_ts |-> Older(speech_state.last_word_ts, 1),
                        last_partial_match_ts |->
                            Older(speech_state.last_partial_match_ts,
                                  PARTIAL_MATCH_COOLDOWN)]
    /\ g_last_accept' = Older(g_last_accept, TRIGGER_COOLDOWN)
    /\ UNCHANGED <<transcriber, matcher, text_window, QA_MODE_STATE, out, ret,
                   speaker, g_returned, g_reemit, g_words>>
    /\ g_last_pcheck' = Older(g_last_pcheck, PARTIAL_MATCH_COOLDOWN)
    /\ UNCHANGED <<g_fired, g_finalized>>

\* the number of matcher.check calls a handler made
Checks(S) ==
    Cardinality({i \in 1..Len(S.calls) : S.calls[i].fn = "check"})

\* the current slide and words_since_transition when a message arrives
MatcherPosition ==
    IF matcher.loaded
    THEN [current |-> matcher.current, words_since |-> matcher.words_since]
    ELSE [current |-> 0, words_since |-> 0]

\* did the handler send a final of confirmed words
SentConfirmed(S) ==
    \E i \in 1..Len(S.out) : S.out[i].type = "final" /\ S.out[i].g_src = "confirmed"

\* {"type": "audio", "data": ...}
HandleAudio ==
    /\ ret = NoCall
    /\ \E k \in 0..MaxWordsPerMessage :
       \E said \in Spoken(speaker, k) :
       \E inp1 \in CheckInputs(matcher) :
       \E inp2 \in IF Checks(handle_audio(Session,
                                IF k = 0 THEN QuietSamples ELSE WordSamples(said[1]),
                                FALSE, inp1, inp1, now)) >= 2
                    THEN CheckInputs(matcher) ELSE {inp1} :
       \E S \in {handle_audio(Session,
                                IF k = 0 THEN QuietSamples ELSE WordSamples(said[1]),
                                FALSE, inp1, inp2, now)} :
            /\ WithinBounds(S)
            /\ Becomes([S EXCEPT !.gf = IF k > 0 \/ SentConfirmed(S) THEN <<>> ELSE @])
            /\ speaker' = said[2]
            /\ ret' = [call |-> "audio", silent |-> FALSE, raised |-> FALSE,
                       calls |-> S.calls,
                       window_before |-> text_window,
                       matcher_before |-> MatcherPosition,
                       partial_before |-> speech_state.last_partial_text,
                       partial_age |-> now - speech_state.last_partial_ts,
                       since_pcheck |-> now - g_last_pcheck,
                       fired_before |-> g_fired,
                       finalized_before |-> IF k = 0 THEN g_finalized ELSE <<>>]

\* {"type": "audio", "silent": true}
HandleAudioSilent ==
    /\ ret = NoCall
    /\ \E inp1 \in CheckInputs(matcher) :
       \E S \in {handle_audio_silent(Session, inp1, inp1, now)} :
            /\ WithinBounds(S)
            /\ Becomes(S)
            /\ UNCHANGED speaker
            /\ ret' = [call |-> "audio", silent |-> TRUE, raised |-> FALSE,
                       calls |-> S.calls,
                       window_before |-> text_window,
                       matcher_before |-> MatcherPosition,
                       partial_before |-> speech_state.last_partial_text,
                       partial_age |-> now - speech_state.last_partial_ts,
                       fed |-> S.t # transcriber,
                       fired_before |-> g_fired]

\* {"type": "load_slides", "slides": [...]}: handle_load_slides
HandleLoadSlides ==
    /\ ret = NoCall
    /\ \E n \in {0, MaxDeck} :
        LET t1 == set_hotwords(transcriber, extract_hotwords(n))
            loaded == [Session EXCEPT
                          !.t = t1,
                          !.m = NewMatcher(n, QA_MODE_STATE, ALLOW_NON_ADJACENT),
                          !.w = <<>>,
                          !.out = <<[type |-> "slides_ready", count |-> n]>>]
            \* SlideMatcher raises ValueError on an empty deck
            failed == [Session EXCEPT !.t = t1]
        IN  /\ Becomes(IF n = 0 THEN failed ELSE loaded)
            /\ UNCHANGED speaker
            \* before: the session as the message that raised found it
            /\ ret' = IF n = 0
                       THEN [call |-> "load_slides", slides |-> n, raised |-> TRUE,
                             calls |-> <<>>,
                             before |-> [matcher |-> matcher,
                                         window |-> text_window,
                                         hotwords |-> transcriber.hotwords]]
                       ELSE [call |-> "load_slides", slides |-> n, raised |-> FALSE,
                             calls |-> <<>>]

\* {"type": "goto_slide", "index": ...}
HandleGotoSlide ==
    /\ ret = NoCall
    /\ \E index \in (0 - 1)..MaxDeck :
        LET m2 == goto(matcher, index)
            S == IF matcher.loaded
                 THEN [Session EXCEPT
                          !.m = m2, !.w = <<>>,
                          !.out = <<[type |-> "slide_set",
                                     current_slide |-> m2.current]>>]
                 ELSE Session
        IN  /\ Becomes(S)
            /\ UNCHANGED speaker
            /\ ret' = [call |-> "goto_slide", index |-> index, raised |-> FALSE,
                       calls |-> <<>>,
                       current |-> IF matcher.loaded THEN matcher.current ELSE 0,
                       words_since |-> IF matcher.loaded THEN matcher.words_since
                                       ELSE 0]

\* {"type": "reset"}
HandleReset ==
    /\ ret = NoCall
    /\ LET S == [Session EXCEPT
                    !.t = TranscriberReset(transcriber),
                    !.m = IF matcher.loaded THEN MatcherReset(matcher) ELSE matcher,
                    !.w = <<>>,
                    !.ss = [last_partial_text |-> <<>>, last_partial_ts |-> 0,
                            last_word_ts |-> 0, last_partial_match_ts |-> 0],
                    !.out = <<[type |-> "reset_done", current_slide |-> 0]>>,
                    !.gf = <<>>]
       IN  /\ Becomes(S)
           /\ UNCHANGED speaker
           /\ ret' = [call |-> "reset", raised |-> FALSE, calls |-> <<>>,
                      words_since |-> IF matcher.loaded THEN matcher.words_since
                                      ELSE 0,
                      before |-> [current |-> IF matcher.loaded THEN matcher.current
                                              ELSE 0,
                                  buffer |-> Len(transcriber.buffer),
                                  partial |-> Len(speech_state.last_partial_text)]]

\* {"type": "set_qa_mode", "qa_mode": ...}
HandleSetQaMode ==
    /\ ret = NoCall
    /\ \E qa_mode \in BOOLEAN :
        LET S == [Session EXCEPT
                     !.qa = qa_mode,
                     !.t.buffer_seconds = _effective_audio_buffer_seconds(qa_mode),
                     !.m = IF matcher.loaded THEN set_qa_mode(matcher, qa_mode)
                           ELSE matcher,
                     !.w = <<>>,
                     !.ss.last_partial_text = <<>>,
                     !.ss.last_partial_ts = 0,
                     !.ss.last_partial_match_ts = 0]
        IN  /\ Becomes(S)
            /\ UNCHANGED speaker
            /\ ret' = [call |-> "set_qa_mode", qa_mode |-> qa_mode, raised |-> FALSE,
                       calls |-> <<>>,
                       before |-> [qa_mode |-> QA_MODE_STATE,
                                   window |-> Len(text_window),
                                   partial |-> Len(speech_state.last_partial_text)]]

Next ==
    \/ Tick
    \/ HandleAudio
    \/ HandleAudioSilent
    \/ HandleLoadSlides
    \/ HandleGotoSlide
    \/ HandleReset
    \/ HandleSetQaMode
    \/ Return

Spec ==
    Init /\ [][Next]_vars

(***************************************************************************)
(* SpecTrigger: the command dispatcher driven directly.  _try_trigger and  *)
(* _process_words are called with texts of every command, next to the      *)
(* goto_slide, reset and set_qa_mode messages.                             *)
(***************************************************************************)
\* texts handed to _try_trigger: one per command, a Goto past the deck, a
\* text without a command and the empty text
TriggerTexts ==
    {<<"go", "next", "slide">>, <<"go", "back", "one">>, <<"prior", "slide">>,
     <<"last", "slide">>, <<"first", "slide">>, <<"go", "slide2">>,
     <<"jump", "to", "slide9">>, <<"hello", "there">>, <<>>}

\* handle_load_slides with a deck of 1..MaxSlides slides
TrgLoad ==
    /\ ret = NoCall
    /\ \E n \in 1..MaxSlides :
        /\ Becomes([Session EXCEPT
                       !.t = set_hotwords(transcriber, extract_hotwords(n)),
                       !.m = NewMatcher(n, QA_MODE_STATE, ALLOW_NON_ADJACENT),
                       !.w = <<>>,
                       !.out = <<[type |-> "slides_ready", count |-> n]>>])
        /\ UNCHANGED speaker
        /\ ret' = [call |-> "load_slides", slides |-> n, raised |-> FALSE,
                   calls |-> <<>>]

\* _try_trigger(text, now, allowed_actions) as handle_audio calls it: with
\* every action on the confirmed path, with Goto, First, Last on a partial
TrgTry ==
    /\ ret = NoCall
    /\ \E text \in TriggerTexts :
       \E src \in {"confirmed", "partial"} :
       \E S \in {_try_trigger(Session, text,
                              IF src = "partial" THEN {"goto", "first", "last"}
                              ELSE AllActions,
                              src, now)} :
            /\ Becomes(S)
            /\ UNCHANGED speaker
            /\ ret' = [call |-> "_try_trigger", raised |-> FALSE, calls |-> S.calls,
                       text |-> text]

\* _process_words(words, now, source) with one confirmed word
TrgProcess ==
    /\ ret = NoCall
    /\ \E inp \in CheckInputs(matcher) :
       \E S \in {_process_words(Session, <<"hello">>, inp, "confirmed", now)} :
            /\ WithinBounds(S)
            /\ Becomes(S)
            /\ UNCHANGED speaker
            /\ ret' = [call |-> "_process_words", raised |-> FALSE,
                       calls |-> S.calls]

TriggerNext ==
    \/ Tick
    \/ TrgLoad
    \/ TrgTry
    \/ TrgProcess
    \/ HandleGotoSlide
    \/ HandleReset
    \/ HandleSetQaMode
    \/ Return

SpecTrigger ==
    Init /\ [][TriggerNext]_vars

(***************************************************************************)
(* SpecWords: handle_audio from the point where the stabilizer has         *)
(* returned (server.py:314), with the lists it returns taken as they come. *)
(* The same partial comes in consecutive passes as a matter of course:     *)
(* after a trim the hypothesis of the trimmed buffer is compared with the  *)
(* longer one of the pass before, place by place (audio.py:139-152), the   *)
(* first words differ, nothing is confirmed and the rest is returned as    *)
(* the partial once more.                                                  *)
(***************************************************************************)
\* the confirmed lists the stabilizer returns
HeardConfirmed ==
    {<<>>, <<"hello">>, <<"first", "slide">>}

\* the partial lists the stabilizer returns
HeardPartial ==
    {<<>>, <<"first", "slide">>, <<"last", "slide">>, <<"hello", "there">>}

\* {"type": "audio", "data": ...} on which process returns (confirmed, partial)
WordsHeard ==
    /\ ret = NoCall
    /\ \E confirmed \in HeardConfirmed, partial \in HeardPartial :
       \E inp1 \in CheckInputs(matcher) :
       \E inp2 \in IF Checks(handle_words(Session, confirmed, partial,
                                          inp1, inp1, now)) >= 2
                    THEN CheckInputs(matcher) ELSE {inp1} :
       \E S \in {handle_words(Session, confirmed, partial, inp1, inp2, now)} :
            /\ WithinBounds(S)
            /\ Becomes([S EXCEPT !.gf = <<>>])
            /\ UNCHANGED speaker
            /\ ret' = [call |-> "audio", silent |-> FALSE, raised |-> FALSE,
                       calls |-> S.calls,
                       window_before |-> text_window,
                       matcher_before |-> MatcherPosition,
                       partial_before |-> speech_state.last_partial_text,
                       partial_age |-> now - speech_state.last_partial_ts,
                       since_pcheck |-> now - g_last_pcheck,
                       fired_before |-> g_fired,
                       finalized_before |-> <<>>]

WordsNext ==
    \/ Tick
    \/ HandleLoadSlides
    \/ WordsHeard
    \/ HandleAudioSilent
    \/ HandleGotoSlide
    \/ Return

SpecWords ==
    Init /\ [][WordsNext]_vars

(***************************************************************************)
(* SpecLoop: the read loop of main() with the messages that raise.  The    *)
(* loop is left (ret.call = "exit") at end-of-input, or by an exception    *)
(* that the except clause of the loop body does not catch.                 *)
(***************************************************************************)
\* exceptions that derive from BaseException only
BaseOnlyExceptions ==
    {"KeyboardInterrupt", "SystemExit", "GeneratorExit"}

Caught_ValueErrorOnly(exc) ==
    exc \in {"ValueError", "JSONDecodeError", "binascii.Error"}

\* server.py:464: except Exception
Caught(exc) ==
    exc \notin BaseOnlyExceptions

\* messages that no handler handles, and what the loop body raises on them:
\* json.loads (server.py:423), msg["type"] (server.py:425), no branch for
\* the type, base64.b64decode (server.py:310)
FaultyMessages ==
    {"malformed_json", "no_type", "unknown_type", "bad_base64"}

RaisedBy(kind) ==
    CASE kind = "malformed_json" -> "JSONDecodeError"
      [] kind = "no_type" -> "KeyError"
      [] kind = "bad_base64" -> "binascii.Error"
      [] OTHER -> "none"

\* the loop after a body that raised exc: the except clause logs the error
\* and the loop reads the next line, or the exception leaves main
AfterBody(r, exc) ==
    IF exc = "none" \/ Caught(exc) THEN r
    ELSE [call |-> "exit", by |-> "exception"]

\* a line that is not JSON, has no type or an unknown one, or an audio
\* message whose data is not base64: nothing is changed before the raise
HandleFaulty ==
    /\ ret = NoCall
    /\ \E kind \in FaultyMessages :
        ret' = AfterBody([call |-> kind, raised |-> RaisedBy(kind) # "none",
                          calls |-> <<>>],
                         RaisedBy(kind))
    /\ UNCHANGED <<transcriber, matcher, text_window, command_state, speech_state,
                   QA_MODE_STATE, out, speaker, g_returned, g_reemit,
                   g_last_accept, g_words,
                   g_last_pcheck, g_fired, g_finalized>>

\* process that forgets the previous hypothesis and trims the buffer to its
\* last second when the ASR raises
AsrFailed_TrimsAndForgets(t, samples) ==
    [add_audio(t, samples) EXCEPT
        !.buffer = LastN(@, SampleRate), !.last_words = <<>>]

\* the stabilizer after add_audio(samples) and a process call in which
\* model.transcribe raises (audio.py:130): the statements that trim the
\* buffer and store the hypothesis (audio.py:146-152) are not reached
AsrFailed(t, samples) ==
    add_audio(t, samples)

\* an audio message, here of audio without speech, on which model.transcribe
\* raises: add_audio has run (server.py:310), process raises past the minimum
\* length (audio.py:130)
HandleAudioAsrError ==
    /\ ret = NoCall
    /\ \E t1 \in {AsrFailed(transcriber, QuietSamples)} :
            /\ Len(add_audio(transcriber, QuietSamples).buffer) >= SampleRate
            /\ transcriber' = t1
            /\ UNCHANGED speaker
            /\ ret' = AfterBody([call |-> "audio", silent |-> FALSE,
                                 raised |-> TRUE, calls |-> <<>>,
                                 samples |-> QuietSamples,
                                 before |-> [buffer |-> transcriber.buffer,
                                             last_words |-> transcriber.last_words]],
                                "RuntimeError")
    /\ UNCHANGED <<matcher, text_window, command_state, speech_state,
                   QA_MODE_STATE, out, g_returned, g_reemit,
                   g_last_accept, g_words,
                   g_last_pcheck, g_fired, g_finalized>>

\* for line in sys.stdin ends (server.py:421)
EndOfInput ==
    /\ ret = NoCall
    /\ ret' = [call |-> "exit", by |-> "eof"]
    /\ UNCHANGED <<transcriber, matcher, text_window, command_state, speech_state,
                   QA_MODE_STATE, out, speaker, g_returned, g_reemit,
                   g_last_accept, g_words,
                   g_last_pcheck, g_fired, g_finalized>>

\* the loop reads the next line
LoopReturn ==
    /\ ret.call # "exit"
    /\ Return

\* the messages of a session that arrive within one tick of the clock
LoopNext ==
    \/ HandleAudio
    \/ HandleAudioSilent
    \/ HandleLoadSlides
    \/ HandleGotoSlide
    \/ HandleReset
    \/ HandleSetQaMode
    \/ HandleFaulty
    \/ HandleAudioAsrError
    \/ EndOfInput
    \/ LoopReturn

SpecLoop ==
    Init /\ [][LoopNext]_vars

(***************************************************************************)
(* SpecLog: what the components write: log lines through logger.log and    *)
(* events through send.  out holds the lines written to stdout.            *)
(***************************************************************************)
\* tags of the loggers the components take with get_logger
LogTags ==
    {"server", "slides", "audio", "embeddings"}

\* characters of a message: a letter, a rule and the arrows log replaces
LogChars ==
    {"a", "=", "arrow_right", "arrow_up"}

MaxMessageLen ==
    2

LogMessages ==
    UNION {[1..n -> LogChars] : n \in 0..MaxMessageLen}

\* logger.py:21
ReplaceArrows(message) ==
    [i \in 1..Len(message) |->
        CASE message[i] = "arrow_right" -> "->"
          [] message[i] = "arrow_up" -> "^"
          [] OTHER -> message[i]]

\* logger.py:20: the stream a log line is written to
LogStream(err) ==
    IF err THEN "stderr" ELSE "stdout"

\* logger.py:21-22: the line [tag] message
LogLine(tag, message) ==
    <<"[", tag, "] ">> \o ReplaceArrows(message) \o <<"\n">>

\* the types of the events of server.py
EventTypes ==
    {"ready", "final", "partial", "slide_transition", "match_eval",
     "slides_ready", "slide_set", "reset_done"}

\* log(message, err=...) of a component: the text write succeeds
LogWrite ==
    /\ ret = NoCall
    /\ \E tag \in LogTags, message \in LogMessages, err \in BOOLEAN :
        /\ out' = IF LogStream(err) = "stdout"
                  THEN <<[line |-> LogLine(tag, message)]>> ELSE <<>>
        /\ ret' = [call |-> "log", tag |-> tag, err |-> err,
                   stream |-> LogStream(err), line |-> LogLine(tag, message)]
    /\ UNCHANGED <<transcriber, matcher, text_window, command_state, speech_state,
                   QA_MODE_STATE, speaker, g_returned, g_reemit,
                   g_last_accept, g_words,
                   g_last_pcheck, g_fired, g_finalized>>

\* send_type(msg_type, ...): print(json.dumps(msg)) on stdout
LogSend ==
    /\ ret = NoCall
    /\ \E type \in EventTypes :
        /\ out' = <<[type |-> type]>>
        /\ ret' = [call |-> "send", stream |-> "stdout"]
    /\ UNCHANGED <<transcriber, matcher, text_window, command_state, speech_state,
                   QA_MODE_STATE, speaker, g_returned, g_reemit,
                   g_last_accept, g_words,
                   g_last_pcheck, g_fired, g_finalized>>

LogNext ==
    \/ LogWrite
    \/ LogSend
    \/ Return

SpecLog ==
    Init /\ [][LogNext]_vars

(***************************************************************************)
(* SpecFuzzy: _fuzzy_match called on every pair of words over a small      *)
(* alphabet, of lengths up to fuzzy_match_min_len + FuzzyLenSlack.         *)
(***************************************************************************)
FuzzyAlphabet ==
    {"a", "b"}

FuzzyLenSlack ==
    1

FuzzyWords ==
    UNION {[1..n -> FuzzyAlphabet] :
              n \in 0..(FILTER_fuzzy_match_min_len + FuzzyLenSlack)}

\* _fuzzy_match(w1, w2), with the value of _fuzzy_match(w2, w1) next to it
FuzzyCall ==
    /\ ret = NoCall
    /\ \E w1 \in FuzzyWords, w2 \in FuzzyWords :
        ret' = [call |-> "_fuzzy_match", w1 |-> w1, w2 |-> w2,
                result |-> FuzzyMatchChars(w1, w2),
                swapped |-> FuzzyMatchChars(w2, w1)]
    /\ UNCHANGED <<transcriber, matcher, text_window, command_state, speech_state,
                   QA_MODE_STATE, out, speaker, g_returned, g_reemit,
                   g_last_accept, g_words, g_last_pcheck, g_fired, g_finalized>>

FuzzyNext ==
    \/ FuzzyCall
    \/ Return

SpecFuzzy ==
    Init /\ [][FuzzyNext]_vars

(***************************************************************************)
(* Properties.                                                             *)
(***************************************************************************)

\* C1: the confirmed words returned by successive process calls never
\* return the same stretch of audio a second time (no re-emission), whether
\* or not the buffer trim was skipped.
C1_NeverReemitted ==
    ~g_reemit

CheckReturnedTransition ==
    ret.call = "check" /\ ret.result = "transition"

\* C2: a transition returned by check goes to a slide whose similarity is at
\* least the effective threshold of the mode and exceeds the similarity of the
\* slide that was current by at least required_diff (match_diff in QA mode,
\* max(match_diff, stay_bias) otherwise).
C2_TransitionMeetsThresholds ==
    CheckReturnedTransition =>
        LET b == ret.before
            t == ret.transition.to_slide
            required_diff == IF b.qa_mode THEN QA_MATCH_DIFF
                             ELSE Max(MATCH_DIFF, STAY_BIAS_MARGIN)
            eff_threshold == IF b.qa_mode THEN QA_MATCH_THRESHOLD ELSE MATCH_THRESHOLD
        IN  /\ t = matcher.current
            /\ ret.transition.from_slide = b.current
            /\ ret.transition.confidence = ret.sims_used[t]
            /\ ret.sims_used[t] >= eff_threshold
            /\ ret.sims_used[t] - ret.sims_used[b.current] >= required_diff

C2_Witness ==
    /\ CheckReturnedTransition
    /\ ret.before.qa_mode
    /\ ret.ignore_cooldown
    /\ ret.sims_used[ret.transition.to_slide] < MATCH_THRESHOLD

\* C3: in non-QA mode a returned transition goes to current-1 or current+1,
\* or else to the global argmax, and then only with allow_non_adjacent set and
\* sims[argmax] >= max(sims[local_best] + non_adjacent_boost,
\* non_adjacent_threshold); without allow_non_adjacent the step is 1.
C3_AdjacentOrGatedJump ==
    (CheckReturnedTransition /\ ~ret.before.qa_mode) =>
        LET b == ret.before
            t == ret.transition.to_slide
            sims == ret.sims_used
            near == {i \in Slides(b) : Abs(i - b.current) <= 1}
            local_best_sim == CHOOSE v \in {sims[i] : i \in near} :
                                  \A i \in near : sims[i] <= v
            best_sim == CHOOSE v \in {sims[i] : i \in Slides(b)} :
                            \A i \in Slides(b) : sims[i] <= v
        IN  /\ t \in Slides(b)
            /\ \/ Abs(t - b.current) = 1
               \/ /\ b.allow_non_adjacent
                  /\ sims[t] = best_sim
                  /\ \A i \in Slides(b) : sims[i] = best_sim => t <= i
                  /\ sims[t] >= Max(local_best_sim + NON_ADJACENT_BOOST,
                                    NON_ADJACENT_THRESHOLD)
            /\ ~b.allow_non_adjacent => Abs(t - b.current) = 1

C3_Witness ==
    /\ CheckReturnedTransition
    /\ ~ret.before.qa_mode
    /\ Abs(ret.transition.to_slide - ret.before.current) = 2
    /\ ret.transition.intent = "jump"

(***************************************************************************)
(* Properties of the session controller (specification Spec).  They read   *)
(* the calls the handler made (ret.calls) and the events it sent (out).    *)
(***************************************************************************)
HandlerCalls ==
    IF ret.call = "audio" THEN ret.calls ELSE <<>>

TriggerCalls ==
    {i \in 1..Len(HandlerCalls) : HandlerCalls[i].fn = "_try_trigger"}

CheckCalls ==
    {i \in 1..Len(HandlerCalls) : HandlerCalls[i].fn = "check"}

SentTransitions ==
    {i \in 1..Len(out) : out[i].type = "slide_transition"}

\* words_since_transition is 0 right after every transition, semantic or voice
ZeroAfterTransition ==
    /\ matcher.loaded => matcher.words_since >= 0
    /\ \A i \in SentTransitions : out[i].g_ws = 0

\* C4 as stated: words_since_transition is never negative and is 0
\* immediately after any transition, any goto_slide and any reset.
C4_ZeroAfterAnyGoto ==
    /\ ZeroAfterTransition
    /\ (ret.call \in {"goto_slide", "reset"} /\ matcher.loaded)
           => matcher.words_since = 0

\* C4: words_since_transition is never negative and is 0 immediately after
\* any transition, any reset, and any goto_slide whose index is a slide of
\* the deck (0 <= index < N); a goto_slide outside the deck leaves it alone.
C4_ZeroAfterTransitionGotoReset ==
    /\ ZeroAfterTransition
    /\ (ret.call = "reset" /\ matcher.loaded) => matcher.words_since = 0
    /\ (ret.call = "goto_slide" /\ matcher.loaded /\ ret.index \in Slides(matcher))
           => matcher.words_since = 0
    /\ (ret.call = "goto_slide" /\ matcher.loaded /\ ret.index \notin Slides(matcher))
           => matcher.words_since = ret.words_since

C4_Witness ==
    /\ ret.call = "goto_slide"
    /\ matcher.loaded
    /\ ret.index \in Slides(matcher)
    /\ ret.words_since > 0
    /\ matcher.words_since = 0

\* C5 as stated: every semantic transition comes at least
\* MATCH_COOLDOWN_WORDS words after the semantic transition before it.
C5_CooldownBetweenAnyTransitions ==
    \A i \in CheckCalls :
        HandlerCalls[i].result = "transition"
            => HandlerCalls[i].counted >= MATCH_COOLDOWN_WORDS

\* C5: every semantic transition decided on confirmed or silence-finalized
\* words comes at least MATCH_COOLDOWN_WORDS words after the semantic
\* transition before it; the partial-speech path, which passes
\* ignore_cooldown, is not held to this.
C5_CooldownBetweenConfirmedTransitions ==
    \A i \in CheckCalls :
        (~HandlerCalls[i].ignore_cooldown /\ HandlerCalls[i].result = "transition")
            => HandlerCalls[i].counted >= MATCH_COOLDOWN_WORDS

\* a confirmed-path check fewer than MATCH_COOLDOWN_WORDS words after a
\* semantic transition, whose scores would otherwise move the slide
C5_Witness ==
    \E i \in CheckCalls :
        /\ ~HandlerCalls[i].ignore_cooldown
        /\ HandlerCalls[i].counted < MATCH_COOLDOWN_WORDS
        /\ HandlerCalls[i].result = "eval"
        /\ LET p == out[HandlerCalls[i].eval_at].payload
           IN  /\ p.target_slide # p.current_slide
               /\ p.target_sim >= p.threshold
               /\ p.diff >= p.required_diff

\* C6: a check made without ignore_cooldown while fewer than
\* MATCH_COOLDOWN_WORDS words have come since the last transition sends a
\* match_eval with would_transition false and cooldown_blocked true, and
\* leaves the matcher as it was.
C6_BlockedCheckOnlyEvaluates ==
    \A i \in CheckCalls :
        LET c == HandlerCalls[i]
        IN  (~c.ignore_cooldown /\ c.enc_ok /\ c.words_since < MATCH_COOLDOWN_WORDS)
                => /\ c.result = "eval"
                   /\ c.same_matcher
                   /\ c.eval_at \in 1..Len(out)
                   /\ out[c.eval_at].type = "match_eval"
                   /\ ~out[c.eval_at].payload.would_transition
                   /\ out[c.eval_at].payload.cooldown_blocked

C6_Witness ==
    \E i \in CheckCalls :
        LET c == HandlerCalls[i]
        IN  /\ ~c.ignore_cooldown
            /\ c.enc_ok
            /\ c.words_since < MATCH_COOLDOWN_WORDS
            /\ out[c.eval_at].type = "match_eval"
            /\ out[c.eval_at].payload.cooldown_blocked
            /\ out[c.eval_at].payload.target_slide
                   # out[c.eval_at].payload.current_slide
            /\ out[c.eval_at].payload.target_sim >= out[c.eval_at].payload.threshold

\* C7: within one handled message, the match_eval and slide_transition of a
\* batch of confirmed or silence-finalized words come after the final event
\* of that batch, and a semantic slide_transition comes directly after the
\* match_eval of the same check.
C7_FinalThenEvalThenTransition ==
    \A i \in 1..Len(out) :
        /\ (out[i].type \in {"match_eval", "slide_transition"}
            /\ out[i].g_src \in {"confirmed", "silence"})
               => \E j \in 1..(i - 1) :
                     out[j].type = "final" /\ out[j].g_src = out[i].g_src
        /\ (out[i].type = "slide_transition" /\ ~out[i].g_voice)
               => /\ i > 1
                  /\ out[i - 1].type = "match_eval"
                  /\ out[i - 1].g_src = out[i].g_src
                  /\ out[i - 1].payload.would_transition

C7_Witness ==
    \E i \in SentTransitions :
        /\ ~out[i].g_voice
        /\ out[i].g_src \in {"confirmed", "silence"}
        /\ i >= 3

\* C8: on partial text only goto, first and last are acted on; a next or
\* prev heard in partial text is refused and changes nothing.
C8_PartialOnlyGotoFirstLast ==
    /\ \A i \in TriggerCalls :
          LET c == HandlerCalls[i]
          IN  c.src = "partial"
                  => /\ c.verdict = "accept" => c.action \in {"goto", "first", "last"}
                     /\ c.action \in {"next", "prev"}
                            => c.verdict = "not_allowed" /\ c.frame
    /\ \A i \in SentTransitions :
          (out[i].g_voice /\ out[i].g_src = "partial")
              => out[i].g_action \in {"goto", "first", "last"}

\* a prev heard in partial text, on a slide that has a previous slide and
\* outside the trigger cooldown, is refused
C8_Witness ==
    \E i \in TriggerCalls :
        LET c == HandlerCalls[i]
        IN  /\ c.src = "partial"
            /\ c.action = "prev"
            /\ c.verdict = "not_allowed"
            /\ c.from_slide > 0
            /\ c.since_accept >= TRIGGER_COOLDOWN

\* C9: a voice trigger is accepted only when at least TRIGGER_COOLDOWN has
\* passed since the last accepted trigger; one detected sooner changes
\* nothing.
C9_TriggerCooldown ==
    \A i \in TriggerCalls :
        LET c == HandlerCalls[i]
        IN  /\ c.verdict = "accept" => c.since_accept >= TRIGGER_COOLDOWN
            /\ (c.action # "none" /\ c.since_accept < TRIGGER_COOLDOWN)
                   => c.verdict # "accept" /\ c.frame
            /\ c.verdict = "cooldown" => c.since_accept < TRIGGER_COOLDOWN

C9_Witness ==
    \E i \in TriggerCalls :
        /\ HandlerCalls[i].verdict = "cooldown"
        /\ HandlerCalls[i].since_accept < TRIGGER_COOLDOWN
        /\ HandlerCalls[i].frame

\* C10: a next or prev trigger is accepted only when at least
\* TRIGGER_MIN_WORDS_BETWEEN words have come since the last transition,
\* the batch that carries the trigger already counted; goto, first and last
\* are never held back by that count.
C10_NextPrevDebounced ==
    \A i \in TriggerCalls :
        LET c == HandlerCalls[i]
        IN  /\ (c.verdict = "accept" /\ c.action \in {"next", "prev"})
                   => c.words_since >= TRIGGER_MIN_WORDS_BETWEEN
            /\ c.action \in {"goto", "first", "last"} => c.verdict # "debounce"
            /\ c.verdict = "debounce" => c.frame
            /\ (c.src \in {"confirmed", "silence"} /\ c.verdict # "no_matcher_or_text")
                   => c.words_since >= 1

C10_Witness ==
    /\ \E i \in TriggerCalls :
          /\ HandlerCalls[i].verdict = "accept"
          /\ HandlerCalls[i].action = "prev"
    /\ \E i \in SentTransitions : out[i].g_voice /\ out[i].g_action = "prev"

TransitionFields ==
    {"from_slide", "to_slide", "confidence", "slide_title", "intent"}

\* C11: every slide_transition sent, by the semantic matcher or by a voice
\* trigger, carries from_slide, to_slide, confidence, slide_title and intent;
\* those of a voice trigger have confidence 1.0 and an intent tagging the
\* voice source.
C11_TransitionCarriesAllFields ==
    \A i \in SentTransitions :
        /\ TransitionFields \subseteq DOMAIN out[i].payload
        /\ out[i].g_voice =>
               /\ out[i].payload.confidence = 100
               /\ out[i].payload.intent = VoiceIntent(out[i].g_action)
               /\ out[i].payload.intent # "none"

\* C12: with N >= 1 slides loaded, 0 <= current < N in every state, whatever
\* sequence of semantic transitions, voice triggers (Next, Prev, Goto, First,
\* Last), goto_slide, reset and set_qa_mode commands was handled.
C12_CurrentInDeck ==
    matcher.loaded =>
        /\ matcher.slides >= 1
        /\ 0 <= matcher.current
        /\ matcher.current < matcher.slides

\* a Next said on the last slide, a Prev said on the first one, a Goto past
\* the deck or a goto_slide outside it has just been handled
C12_Witness ==
    /\ matcher.loaded
    /\ \/ /\ ret.call = "_try_trigger"
          /\ \E i \in 1..Len(ret.calls) :
                /\ ret.calls[i].verdict = "refused"
                /\ ret.calls[i].action = "next"
                /\ matcher.current = matcher.slides - 1
       \/ /\ ret.call = "goto_slide"
          /\ ret.index = matcher.slides
          /\ matcher.current = matcher.slides - 1

\* the voice command of the text _try_trigger was called with
SaidTrigger ==
    detect_trigger(ret.text)

\* C13: a goto_slide command or a voice Goto whose target is outside [0, N)
\* is rejected: current and words_since_transition stay as they were, the
\* slide_set reply to the rejected command reports the unchanged current, and
\* the rejected voice Goto sends no slide_transition.
C13_OutOfRangeGotoRejected ==
    /\ (/\ ret.call = "goto_slide"
        /\ matcher.loaded
        /\ (ret.index < 0 \/ ret.index >= matcher.slides))
       => /\ matcher.current = ret.current
          /\ matcher.words_since = ret.words_since
          /\ out = <<[type |-> "slide_set", current_slide |-> ret.current]>>
    /\ (/\ ret.call = "_try_trigger"
        /\ matcher.loaded
        /\ SaidTrigger.action = "goto"
        /\ (SaidTrigger.target < 0 \/ SaidTrigger.target >= matcher.slides))
       => /\ SentTransitions = {}
          /\ \A i \in 1..Len(ret.calls) :
                /\ ret.calls[i].verdict # "accept"
                /\ ret.calls[i].frame
                /\ matcher.current = ret.calls[i].from_slide
                /\ matcher.words_since = ret.calls[i].words_since

\* a goto_slide past the deck, or a voice Goto past the deck that no
\* cooldown held back, has just been rejected away from the first slide
C13_Witness ==
    /\ matcher.loaded
    /\ matcher.current > 0
    /\ matcher.words_since > 0
    /\ \/ ret.call = "goto_slide" /\ ret.index >= matcher.slides
       \/ /\ ret.call = "_try_trigger"
          /\ SaidTrigger.action = "goto"
          /\ SaidTrigger.target >= matcher.slides
          /\ Len(ret.calls) = 1
          /\ ret.calls[1].verdict = "refused"

\* C14: in every state reached by audio, set_qa_mode, reset and load_slides
\* messages the PCM buffer holds at most buffer_seconds x sample_rate samples,
\* buffer_seconds being the value in effect (the one set_qa_mode last set).
C14_BufferWithinCap ==
    Len(transcriber.buffer) <= transcriber.buffer_seconds * SampleRate

\* a process call has just confirmed at least one word
ProcessConfirmed ==
    ret.call = "process" /\ ret.nconf > 0

\* floor(end_s x sample_rate) for the last word the call confirmed
ConfirmedEnd ==
    transcriber.last_words[ret.nconf].end

\* C15 as stated: for every process call that confirms at least one word the
\* buffer length after the call is <= its length before the call minus
\* floor(end_s x sample_rate), end_s the end time of the last confirmed word.
C15_BufferShrinksByConfirmed ==
    ProcessConfirmed => Len(transcriber.buffer) <= ret.before - ConfirmedEnd

\* C15: for every process call that confirms at least one word, the buffer
\* length after the call is <= its length before minus floor(end_s x
\* sample_rate) when that trim is positive and leaves at least one sample;
\* otherwise the call leaves the buffer length as it was.
C15_BufferShrinksWhenTrimmed ==
    ProcessConfirmed =>
        IF 0 < ConfirmedEnd /\ ConfirmedEnd < ret.before
        THEN Len(transcriber.buffer) <= ret.before - ConfirmedEnd
        ELSE Len(transcriber.buffer) = ret.before

\* a process call confirmed a word that ends inside the buffer
C15_Witness ==
    /\ ProcessConfirmed
    /\ 0 < ConfirmedEnd
    /\ ConfirmedEnd < ret.before
    /\ Len(transcriber.buffer) = ret.before - ConfirmedEnd

\* the speech-stream state as main creates it and as reset leaves it
SpeechCleared ==
    speech_state = [last_partial_text |-> <<>>, last_partial_ts |-> 0,
                    last_word_ts |-> 0, last_partial_match_ts |-> 0]

\* C16: a load_slides message resets the state that reset resets: after it
\* the PCM buffer and the previous hypothesis are empty, the matcher is at
\* current = 0 with words_since_transition = 0, the text window is empty and
\* the speech-stream state is cleared, whatever audio and partials preceded.
C16_LoadSlidesResets ==
    (ret.call = "load_slides" /\ ~ret.raised) =>
        /\ transcriber.buffer = <<>>
        /\ transcriber.last_words = <<>>
        /\ matcher.loaded
        /\ matcher.current = 0
        /\ matcher.words_since = 0
        /\ text_window = <<>>
        /\ SpeechCleared

\* C17: load_slides with an empty slide list sends no slides_ready and the
\* controller answers it with an error event; the handler returns to the
\* loop, which goes on with the next message.
C17_EmptyDeckAnsweredWithError ==
    (ret.call = "load_slides" /\ ret.slides = 0) =>
        /\ \A i \in 1..Len(out) : out[i].type # "slides_ready"
        /\ \E i \in 1..Len(out) : out[i].type = "error"

C19_StdoutOnlyEvents ==
    /\ \A i \in 1..Len(out) :
          /\ "type" \in DOMAIN out[i]
          /\ out[i].type \in EventTypes
    /\ ret.call = "log" => ret.stream = "stderr"

\* an audio message has just been handled without an ASR error
AudioHandled ==
    ret.call = "audio" /\ ~ret.raised

\* the message yielded confirmed words
ConfirmedArrived ==
    \E i \in 1..Len(out) : out[i].type = "final" /\ out[i].g_src = "confirmed"

\* the synthetic finals of the silence-based finalization
SilenceFinals ==
    {i \in 1..Len(out) : out[i].type = "final" /\ out[i].g_src = "silence"}

\* the message left the partial stored before it as it was: it yielded no
\* partial, or the same one again
PartialUnchanged ==
    \A i \in 1..Len(out) :
        out[i].type = "partial" => out[i].text = ret.partial_before

\* a non-empty last partial, unchanged for partial_finalize_ms or longer, in a
\* message without confirmed words
StablePartial ==
    /\ ~ConfirmedArrived
    /\ Len(ret.partial_before) > 0
    /\ PartialUnchanged
    /\ ret.partial_age >= PARTIAL_FINALIZE

\* the outcome of the finalization for a partial that is to be finalized
\* (stable) or not
SilenceOutcome(stable) ==
    /\ ret.silent => ~ret.fed /\ ~ConfirmedArrived
    /\ stable =>
          /\ Cardinality(SilenceFinals) = 1
          /\ \A i \in SilenceFinals : out[i].text = ret.partial_before
          /\ speech_state.last_partial_text = <<>>
          /\ speech_state.last_partial_ts = 0
          /\ matcher.loaded =>
                \E k \in 1..Len(ret.calls) : ret.calls[k].src = "silence"
    /\ ~stable => SilenceFinals = {}

\* C20 as stated: in an audio message that yields no confirmed words (every
\* silent message is one, and never feeds the stabilizer), a non-empty last
\* partial unchanged for partial_finalize_ms or longer gets exactly one
\* synthetic final with its text, its words are processed as confirmed words
\* and the stored partial is cleared; a partial stable for less, or confirmed
\* words arriving, gives no synthetic final.
C20_StablePartialFinalized ==
    AudioHandled => SilenceOutcome(StablePartial)

\* the partial fast path of the message made a semantic transition, which
\* clears the stored partial (server.py:300-304)
PartialPathTransition ==
    \E i \in SentTransitions : out[i].g_src = "partial" /\ ~out[i].g_voice

\* C20: as above, for a stable partial that the partial fast path of the same
\* message did not clear by a semantic transition; after such a transition
\* no synthetic final is emitted.
C20_SilenceFinalization ==
    AudioHandled => SilenceOutcome(StablePartial /\ ~PartialPathTransition)

\* a silent message has just finalized a stable partial with a deck loaded
C20_Witness ==
    /\ AudioHandled
    /\ ret.silent
    /\ StablePartial
    /\ matcher.loaded
    /\ Cardinality(SilenceFinals) = 1

\* the matcher checks the partial path made in the audio message handled
PartialChecks ==
    {k \in 1..Len(HandlerCalls) :
        HandlerCalls[k].fn = "check" /\ HandlerCalls[k].src = "partial"}

\* C21: a partial-path semantic match is attempted only when the partial text
\* has been unchanged for partial_match_stable_ms or longer and the previous
\* partial-path match was partial_match_cooldown_ms or longer ago: two
\* partial-path matcher calls are at least partial_match_cooldown_ms apart,
\* also when confirmed words arrive between them.
C21_PartialMatchStableAndSpaced ==
    (AudioHandled /\ PartialChecks # {}) =>
        /\ Len(ret.partial_before) > 0
        /\ PartialUnchanged
        /\ ret.partial_age >= PARTIAL_MATCH_STABLE
        /\ ret.since_pcheck >= PARTIAL_MATCH_COOLDOWN

\* the shorter of the two words is a prefix of the other
FuzzyPrefix ==
    LET n == Min(Len(ret.w1), Len(ret.w2))
    IN  SubSeq(ret.w1, 1, n) = SubSeq(ret.w2, 1, n)

\* C22: fuzzy_match is symmetric, fuzzy_match(a, b) = fuzzy_match(b, a) for
\* all words a and b, and the one-character-difference rule (a match of two
\* different words neither of which is a prefix of the other) applies only
\* when both words have length >= fuzzy_min_len + 1.
C22_FuzzyMatchSymmetric ==
    ret.call = "_fuzzy_match" =>
        /\ ret.result = ret.swapped
        /\ (ret.result /\ ret.w1 # ret.w2 /\ ~FuzzyPrefix) =>
              /\ Len(ret.w1) >= FILTER_fuzzy_match_min_len + 1
              /\ Len(ret.w2) >= FILTER_fuzzy_match_min_len + 1

\* C23: reset is idempotent.  The state a reset leaves (empty PCM buffer and
\* previous hypothesis, current = 0, words_since_transition = 0, empty text
\* window, cleared speech state) is the state a second reset leaves, and each
\* reset answers reset_done with current_slide = 0.
C23_ResetIdempotent ==
    ret.call = "reset" =>
        /\ transcriber.buffer = <<>>
        /\ transcriber.last_words = <<>>
        /\ matcher.loaded => matcher.current = 0 /\ matcher.words_since = 0
        /\ text_window = <<>>
        /\ SpeechCleared
        /\ out = <<[type |-> "reset_done", current_slide |-> 0]>>
        /\ TranscriberReset(transcriber) = transcriber
        /\ matcher.loaded => MatcherReset(matcher) = matcher

\* a reset has just been handled away from the first slide, with words
\* counted, audio in the buffer and a partial stored
C23_Witness ==
    /\ ret.call = "reset"
    /\ matcher.loaded
    /\ ret.words_since > 0
    /\ ret.before.current > 0
    /\ ret.before.buffer > 0
    /\ ret.before.partial > 0
AtFirstSlide ==
    ret.call = "check" /\ ret.result # "None" /\ ret.before.current = 0

\* the check was made from the last slide of the deck
AtLastSlide ==
    /\ ret.call = "check" /\ ret.result # "None"
    /\ ret.before.current = ret.before.slides - 1

\* C25: at the first slide the previous slide is the current one and at the
\* last slide the next slide is the current one, and a check made there never
\* returns a transition onto the edge slide itself: none that goes backward
\* from the first slide, none that goes forward from the last
C25_EdgesClampedNeverTransition ==
    /\ AtFirstSlide =>
          /\ ret.eval.prev_slide = ret.before.current
          /\ ret.result = "transition" =>
                /\ ret.transition.to_slide > ret.before.current
                /\ ret.transition.to_slide \in Slides(ret.before)
                /\ ret.transition.intent # "backward"
    /\ AtLastSlide =>
          /\ ret.eval.next_slide = ret.before.current
          /\ ret.result = "transition" =>
                /\ ret.transition.to_slide < ret.before.current
                /\ ret.transition.to_slide \in Slides(ret.before)
                /\ ret.transition.intent # "forward"

\* outside Q&A mode a check at an edge of a deck of several slides found the
\* clamped neighbour within the bias margin of the local best and stayed
C25_Witness ==
    /\ ret.call = "check" /\ ret.result = "eval"
    /\ ~ret.before.qa_mode
    /\ ret.before.slides >= 2
    /\ \/ /\ AtFirstSlide
          /\ ret.eval.prev_sim >= ret.sims_used[ret.local_best]
                                     - ret.before.back_bias
          /\ ret.eval.target_slide = ret.before.current
       \/ /\ AtLastSlide
          /\ ret.eval.next_sim >= ret.sims_used[ret.local_best]
                                     - ret.before.forward_bias
          /\ ret.eval.target_slide = ret.before.current

RECURSIVE WindowAfter(_, _, _, _)
\* the window the events of a handler account for: every final event hands
\* its words to _process_words, which keeps the last cap words when a deck
\* is loaded, and every slide_transition clears the window
WindowAfter(w, events, cap, loaded) ==
    IF events = <<>> THEN w
    ELSE LET e == Head(events)
         IN  WindowAfter(IF e.type = "slide_transition" THEN <<>>
                         ELSE IF e.type = "final" /\ loaded
                              THEN LastN(w \o e.text, cap)
                         ELSE w,
                         Tail(events), cap, loaded)

\* C26: the text window never holds more than the window_words in effect for
\* the current Q&A mode, and an audio handler leaves in it exactly the last
\* window_words of the words it held before followed by the words the handler
\* processed, counted from the last clearing
C26_WindowHoldsRecentWords ==
    /\ Len(text_window) <= _effective_window_words(QA_MODE_STATE)
    /\ AudioHandled =>
          text_window = WindowAfter(ret.window_before, out,
                                    _effective_window_words(QA_MODE_STATE),
                                    matcher.loaded)

\* a full window took another word and dropped its oldest one
C26_Witness ==
    /\ AudioHandled
    /\ Len(ret.window_before) = _effective_window_words(QA_MODE_STATE)
    /\ Len(text_window) = _effective_window_words(QA_MODE_STATE)
    /\ text_window # ret.window_before
    /\ \A i \in 1..Len(out) : out[i].type # "slide_transition"

\* the places in out of the slide_transition events after which the handler
\* processed no further words
LastTransitions ==
    {i \in 1..Len(out) :
        /\ out[i].type = "slide_transition"
        /\ \A j \in (i + 1)..Len(out) : out[j].type # "final"}

\* C27: the text window is empty once a slide_transition has been sent, be it
\* from the matcher on confirmed words, from the matcher on a partial or from
\* a voice trigger, for as long as no further words are processed; it is
\* empty as well after goto_slide, reset, set_qa_mode and a load_slides that
\* succeeded
C27_WindowEmptyAfterTransition ==
    /\ (AudioHandled /\ LastTransitions # {}) => text_window = <<>>
    /\ ret.call \in {"goto_slide", "reset", "set_qa_mode"} => text_window = <<>>
    /\ (ret.call = "load_slides" /\ ~ret.raised) => text_window = <<>>

\* the matcher moved on the words of a window that held words before
C27_Witness ==
    /\ AudioHandled
    /\ ret.window_before # <<>>
    /\ \E i \in LastTransitions : ~out[i].g_voice
    /\ text_window = <<>>

\* C28: set_qa_mode(q) leaves the matcher in mode q with the threshold and the
\* diff of that mode and the stabilizer with the buffer duration in effect
\* for q; the text window, last_partial_text, last_partial_ts and
\* last_partial_match_ts are cleared, and no event is sent
C28_SetQaModeSwitchesAndClears ==
    ret.call = "set_qa_mode" =>
        /\ QA_MODE_STATE = ret.qa_mode
        /\ matcher.loaded =>
              /\ matcher.qa_mode = ret.qa_mode
              /\ matcher.threshold = IF ret.qa_mode THEN QA_MATCH_THRESHOLD
                                     ELSE MATCH_THRESHOLD
              /\ matcher.diff = IF ret.qa_mode THEN QA_MATCH_DIFF ELSE MATCH_DIFF
        /\ transcriber.buffer_seconds = IF ret.qa_mode THEN QA_AUDIO_BUFFER_SECONDS
                                        ELSE AUDIO_BUFFER_SECONDS
        /\ text_window = <<>>
        /\ speech_state.last_partial_text = <<>>
        /\ speech_state.last_partial_ts = 0
        /\ speech_state.last_partial_match_ts = 0
        /\ out = <<>>

\* the mode was switched while a deck was loaded, the window held words and
\* a partial was pending
C28_Witness ==
    /\ ret.call = "set_qa_mode"
    /\ matcher.loaded
    /\ ret.before.qa_mode # ret.qa_mode
    /\ ret.before.window > 0
    /\ ret.before.partial > 0

\* the ASR raised on the audio message just handled
AsrRaised ==
    ret.call = "audio" /\ ret.raised

\* C29: when the ASR raises in process, the PCM buffer holds the samples it
\* held before followed by those of the message, cut only to the buffer
\* duration and not at any confirmed word, the previous hypothesis is the one
\* of the pass before, the message yields no final and no partial event, and
\* the exception does not end the loop, which goes on to the next message
C29_AsrErrorLeavesStabilizer ==
    /\ AsrRaised =>
          /\ transcriber.last_words = ret.before.last_words
          /\ transcriber.buffer =
                LastN(ret.before.buffer \o ret.samples,
                      Min(Len(ret.before.buffer) + Len(ret.samples),
                          transcriber.buffer_seconds * SampleRate))
          /\ \A i \in 1..Len(out) : out[i].type \notin {"final", "partial"}
          /\ ENABLED LoopReturn
    /\ ret.call = "exit" => ret.by # "exception"

\* the ASR raised while a deck was loaded, a hypothesis was held from the pass
\* before and the buffer held more than a second of audio
C29_Witness ==
    /\ AsrRaised
    /\ matcher.loaded
    /\ ret.before.last_words # <<>>
    /\ Len(ret.before.buffer) > SampleRate

\* the words of hypothesis h from place a to place b, as text
WordsOf(h, a, b) ==
    [i \in 1..(b - a + 1) |-> h[a + i - 1].word]

\* n is the length of the longest prefix of curr that fuzzy-matches prev
\* place by place
LongestAgreedPrefix(prev, curr, n) ==
    /\ n \in 0..Min(Len(prev), Len(curr))
    /\ \A i \in 1..n : _fuzzy_match(prev[i].word, curr[i].word)
    /\ n < Min(Len(prev), Len(curr)) =>
          ~_fuzzy_match(prev[n + 1].word, curr[n + 1].word)

\* C30: a process call on at least a second of audio confirms the longest
\* prefix of the current hypothesis that fuzzy-matches the previous one at
\* the same places, nothing on a first pass or after an empty hypothesis; the
\* partial is the rest of the current hypothesis (both are filtered before
\* they are returned), and the current hypothesis is kept as the previous
\* one of the next pass whether or not a word was confirmed
C30_LocalAgreementStep ==
    (ret.call = "process" /\ ret.ran) =>
        /\ LongestAgreedPrefix(ret.prev, ret.curr, ret.nconf)
        /\ ret.prev = <<>> => ret.nconf = 0
        /\ ret.confirmed = _filter_words(WordsOf(ret.curr, 1, ret.nconf))
        /\ ret.partial = _filter_words(WordsOf(ret.curr, ret.nconf + 1, Len(ret.curr)))
        /\ transcriber.last_words = ret.curr

\* a pass confirmed a part of its hypothesis against a different previous one
C30_Witness ==
    /\ ret.call = "process" /\ ret.ran
    /\ ret.nconf > 0
    /\ ret.nconf < Len(ret.curr)
    /\ ret.prev # ret.curr

\* a check outside Q&A mode that evaluated the slides
NonQaCheck ==
    ret.call = "check" /\ ret.result # "None" /\ ~ret.before.qa_mode

\* the next slide is in range and within the forward bias margin of the
\* local best
ForwardBiasMet ==
    /\ ret.eval.next_slide # ret.before.current
    /\ ret.eval.next_sim >=
          ret.sims_used[ret.local_best] - ret.before.forward_bias

\* the global best lies outside the candidates and passes the gate of the
\* non-adjacent override, which is enabled
OverrideMet ==
    /\ ret.before.allow_non_adjacent
    /\ ~InSeq(ret.eval.best_slide, Candidates(ret.before))
    /\ ret.eval.best_sim >=
          Max(ret.sims_used[ret.local_best]
                + ret.before.non_adjacent_boost,
              ret.before.non_adjacent_threshold)

\* C31: in a check outside Q&A mode the back bias is applied only if the
\* forward bias did not take effect: whenever the forward bias condition
\* holds, the chosen target is the next slide, also when the back bias
\* condition holds and when next is the local best itself (the non-adjacent
\* override, a later step, is left aside: where it is enabled and met the
\* target is the global best)
C31_ForwardBiasBeforeBackBias ==
    (NonQaCheck /\ ForwardBiasMet) =>
        ret.eval.target_slide = IF OverrideMet THEN ret.eval.best_slide
                                ELSE ret.eval.next_slide

\* the candidates of the check: the current slide and its neighbours in range
CandidateSet ==
    {ret.before.current, ret.eval.next_slide, ret.eval.prev_slide}

\* the largest similarity among the candidates
CandidateMax ==
    CHOOSE v \in {ret.sims_used[c] : c \in CandidateSet} :
        \A c \in CandidateSet : ret.sims_used[c] <= v

\* C32 as stated: when the current slide ties with another candidate for the
\* best similarity, the chosen target is the current slide
C32_TieTargetIsCurrent ==
    (/\ NonQaCheck
     /\ ~OverrideMet
     /\ ret.eval.current_sim = CandidateMax
     /\ \E c \in CandidateSet \ {ret.before.current} :
           ret.sims_used[c] = CandidateMax)
        => ret.eval.target_slide = ret.before.current

\* C32: in a check outside Q&A mode the local best among candidates of
\* exactly equal similarity is the current slide first, then the next slide,
\* then the previous slide (the forward and the back bias choose the target
\* from there); the global best over all slides is the lowest index among
\* the slides of the largest similarity
C32_TiesResolveInCandidateOrder ==
    NonQaCheck =>
        /\ ret.local_best \in CandidateSet
        /\ ret.sims_used[ret.local_best] = CandidateMax
        /\ ret.eval.current_sim = CandidateMax => ret.local_best = ret.before.current
        /\ (ret.eval.current_sim < CandidateMax /\ ret.eval.next_sim = CandidateMax)
              => ret.local_best = ret.eval.next_slide
        /\ \A i \in Slides(ret.before) :
              /\ ret.sims_used[i] <= ret.eval.best_sim
              /\ ret.sims_used[i] = ret.eval.best_sim => ret.eval.best_slide <= i

\* the next and the previous slide tied above the current one, and two
\* slides tied for the global best
C32_Witness ==
    /\ NonQaCheck
    /\ ret.eval.prev_slide < ret.before.current
    /\ ret.eval.next_slide > ret.before.current
    /\ ret.eval.next_sim = ret.eval.prev_sim
    /\ ret.eval.current_sim < ret.eval.next_sim
    /\ ret.local_best = ret.eval.next_slide
    /\ ret.eval.best_slide = ret.eval.prev_slide

\* the places in out of the slide_transition events of accepted voice triggers
VoiceTransitions ==
    {i \in 1..Len(out) : out[i].type = "slide_transition" /\ out[i].g_voice}

\* the places in out of the events the semantic matcher gave: match_eval and
\* its slide_transition
MatcherEvents ==
    {j \in 1..Len(out) :
        \/ out[j].type = "match_eval"
        \/ out[j].type = "slide_transition" /\ ~out[j].g_voice}

\* C33: in the audio message in which a voice trigger is accepted, no
\* match_eval and no slide_transition of the matcher is sent for the text the
\* trigger fired on, be it the confirmed batch, the partial or the partial
\* finalized after silence
C33_TriggerInterceptsMatching ==
    AudioHandled =>
        \A i \in VoiceTransitions : \A j \in MatcherEvents :
            out[j].g_src # out[i].g_src

\* C34: one spoken Goto, First or Last command gives at most one
\* slide_transition: once a trigger has fired on a partial, a later audio
\* message without confirmed words in which that partial is still the last
\* one, whether it arrives again or is finalized after silence, fires no
\* trigger
C34_OneTransitionPerCommand ==
    (/\ AudioHandled
     /\ ~ConfirmedArrived
     /\ ret.fired_before # <<>>
     /\ PartialUnchanged)
        => \A i \in VoiceTransitions : out[i].g_src \notin {"partial", "silence"}

\* C35: every slide_transition sent in a session goes to another slide than
\* the one it comes from, be it a transition of the matcher or of one of the
\* voice triggers Next, Prev, Goto, First and Last
C35_TransitionChangesSlide ==
    \A i \in 1..Len(out) :
        out[i].type = "slide_transition" =>
            out[i].payload.to_slide # out[i].payload.from_slide

\* C36: the words of a synthetic final, sent when a partial was finalized
\* after silence, are not sent again in a final of confirmed words when audio
\* arrives again with nothing new said: a stretch of speech is in at most one
\* final event (and with it counted once into words_since_transition and the
\* text window)
C36_FinalizedWordsNotConfirmedAgain ==
    (AudioHandled /\ ~ret.silent /\ ret.finalized_before # <<>>) =>
        \A i \in 1..Len(out) :
            (out[i].type = "final" /\ out[i].g_src = "confirmed") =>
                \A k \in 1..Len(out[i].text) :
                    ~InSeq(out[i].text[k], ret.finalized_before)

\* C37: whenever a deck is loaded, the matcher is in the Q&A mode of the
\* controller's flag and its threshold and diff are those configured for
\* that mode, however set_qa_mode and load_slides messages follow each other
C37_MatcherModeFollowsFlag ==
    matcher.loaded =>
        /\ matcher.qa_mode = QA_MODE_STATE
        /\ matcher.threshold = IF QA_MODE_STATE THEN QA_MATCH_THRESHOLD
                               ELSE MATCH_THRESHOLD
        /\ matcher.diff = IF QA_MODE_STATE THEN QA_MATCH_DIFF ELSE MATCH_DIFF

\* a deck was loaded while the flag was other than configured at the start:
\* a set_qa_mode came before the load_slides
C37_Witness ==
    /\ ret.call = "load_slides"
    /\ ~ret.raised
    /\ matcher.loaded
    /\ QA_MODE_STATE # QA_MODE

\* an audio message whose only effect on the slides is a matcher check of
\* the partial that returned no transition: no confirmed words, no partial
\* finalized, no trigger accepted
PartialCheckedOnly ==
    /\ AudioHandled
    /\ ~ConfirmedArrived
    /\ SilenceFinals = {}
    /\ PartialChecks # {}
    /\ \A k \in CheckCalls : HandlerCalls[k].result # "transition"
    /\ \A k \in TriggerCalls : HandlerCalls[k].verdict # "accept"

\* C38: a matcher check of the partial path that returns no transition leaves
\* the text window, the current slide and words_since_transition as they
\* were: the words of the partial are not put into the window and not
\* counted; of the partial state only last_partial_match_ts is set
C38_PartialCheckLeavesWindow ==
    PartialCheckedOnly =>
        /\ text_window = ret.window_before
        /\ MatcherPosition = ret.matcher_before
        /\ \A k \in CheckCalls : HandlerCalls[k].same_matcher
        /\ speech_state.last_partial_text = ret.partial_before
        /\ now - speech_state.last_partial_ts = ret.partial_age
        /\ speech_state.last_partial_match_ts = now

\* the partial was checked against a window that held words, and the
\* matcher evaluated the slides and stayed
C38_Witness ==
    /\ PartialCheckedOnly
    /\ ret.window_before # <<>>
    /\ ret.matcher_before.words_since > 0
    /\ \E k \in PartialChecks : HandlerCalls[k].result = "eval"

\* the verdicts of a detected command that is not carried out
RejectedVerdicts ==
    {"not_allowed", "cooldown", "debounce", "refused"}

\* C39: a detected voice trigger that is not accepted (action not allowed on
\* the path, inside the trigger cooldown, Next/Prev debounced, Next at the
\* last slide, Prev at slide 0, Goto out of range) sends no slide_transition
\* and leaves current, words_since_transition, the text window and
\* last_command_ts as they were
C39_RejectedTriggerChangesNothing ==
    ret.call = "_try_trigger" =>
        \A k \in DOMAIN ret.calls :
            ret.calls[k].verdict \in RejectedVerdicts =>
                /\ ret.calls[k].frame
                /\ ret.calls[k].to_slide = ret.calls[k].from_slide
                /\ matcher.current = ret.calls[k].from_slide
                /\ matcher.words_since = ret.calls[k].words_since
                /\ now - command_state.last_ts = ret.calls[k].since_accept
                /\ \A i \in DOMAIN out : out[i].type # "slide_transition"

\* a Goto past the deck is refused while the text window holds words
C39_Witness ==
    /\ ret.call = "_try_trigger"
    /\ \E k \in DOMAIN ret.calls :
            /\ ret.calls[k].verdict = "refused"
            /\ ret.calls[k].action = "goto"
    /\ text_window # <<>>
    /\ matcher.words_since > 0

\* C40: a load_slides that fails on an empty slide list leaves the session
\* as it was: the deck and the matcher loaded before stay in use with the
\* same current slide and words_since_transition, the text window is
\* unchanged and the hotwords of the stabilizer are unchanged
C40_FailedLoadLeavesSession ==
    (ret.call = "load_slides" /\ ret.raised) =>
        /\ matcher = ret.before.matcher
        /\ text_window = ret.before.window
        /\ transcriber.hotwords = ret.before.hotwords

====
